---- MODULE Spec2Model ----
(***************************************************************************)
(* Model of the in-page capture and crash-correlation engine of the L2     *)
(* agent (chrome-extension/apiService.js, the main-world script): the      *)
(* noise filters, the error normalizer, the console / error / rejection    *)
(* hooks, the sliding-window API buffer, the XHR and fetch wrappers, the   *)
(* error-based crash detector with its cooldown timer and the DOM crash    *)
(* watcher.                                                                *)
(*                                                                         *)
(* JavaScript strings are TLA+ strings; the regular expressions of the     *)
(* source are written out as prefix / suffix / substring tests on them.    *)
(* An absent (undefined) string field is the empty string wherever the     *)
(* source only tests its truthiness.  Time is the clock `now` in           *)
(* milliseconds.  Every record carries `n`, its arrival number, which      *)
(* stands for the identity of the JavaScript object.                       *)
(***************************************************************************)
EXTENDS Integers, Sequences, FiniteSets, TLC

\* ------------------------------------------------------------------------
\* Strings
\* ------------------------------------------------------------------------
UpperChars == "ABCDEFGHIJKLMNOPQRSTUVWXYZ"
LowerChars == "abcdefghijklmnopqrstuvwxyz"

CharAt(s, i) == SubSeq(s, i, i)

LowerChar(c) ==
  IF \E i \in 1..Len(UpperChars) : CharAt(UpperChars, i) = c
    THEN CharAt(LowerChars, CHOOSE i \in 1..Len(UpperChars) : CharAt(UpperChars, i) = c)
    ELSE c

RECURSIVE ToLower(_)
ToLower(s) ==
  IF Len(s) = 0 THEN "" ELSE LowerChar(CharAt(s, 1)) \o ToLower(SubSeq(s, 2, Len(s)))

IsSpace(c) == c \in {" ", "\n", "\t", "\r"}

RECURSIVE TrimStart(_)
TrimStart(s) ==
  IF Len(s) > 0 /\ IsSpace(CharAt(s, 1)) THEN TrimStart(SubSeq(s, 2, Len(s))) ELSE s

RECURSIVE TrimEnd(_)
TrimEnd(s) ==
  IF Len(s) > 0 /\ IsSpace(CharAt(s, Len(s))) THEN TrimEnd(SubSeq(s, 1, Len(s) - 1)) ELSE s

\* String.prototype.trim
Trim(s) == TrimEnd(TrimStart(s))

\* String.prototype.startsWith / a regex anchored with ^
StartsWith(s, p) == Len(s) >= Len(p) /\ SubSeq(s, 1, Len(p)) = p

\* a regex anchored with $
EndsWith(s, p) == Len(s) >= Len(p) /\ SubSeq(s, Len(s) - Len(p) + 1, Len(s)) = p

\* the positions at which p occurs in s
Occurrences(s, p) ==
  {i \in 1..(Len(s) - Len(p) + 1) : SubSeq(s, i, i + Len(p) - 1) = p}

\* String.prototype.includes / an unanchored regex of literal characters
Includes(s, p) == Occurrences(s, p) # {}

\* String.prototype.slice(0, k)
Slice0(s, k) == IF Len(s) <= k THEN s ELSE SubSeq(s, 1, k)

\* Array.prototype.slice(-k)
Last(seq, k) == IF Len(seq) <= k THEN seq ELSE SubSeq(seq, Len(seq) - k + 1, Len(seq))

\* the regex p.*q : p, then any characters but a line break, then q
IncludesThen(s, p, q) ==
  \E i \in Occurrences(s, p) : \E j \in Occurrences(s, q) :
    /\ j >= i + Len(p)
    /\ \A k \in (i + Len(p))..(j - 1) : CharAt(s, k) \notin {"\n", "\r"}

\* the regex ^p.q : p, one character that is no line break, then q
StartsWithAnyThen(s, p, q) ==
  /\ StartsWith(s, p)
  /\ Len(s) >= Len(p) + 1 + Len(q)
  /\ CharAt(s, Len(p) + 1) \notin {"\n", "\r"}
  /\ SubSeq(s, Len(p) + 2, Len(p) + 1 + Len(q)) = q

\* ------------------------------------------------------------------------
\* Pattern filters
\* ------------------------------------------------------------------------
\* one test of the trimmed message against IGNORED_ERROR_PATTERNS
MatchesIgnoredErrorPattern(t) ==
  LET l == ToLower(t) IN
  \/ l = "unknown error"
  \/ l = "undefined"
  \/ l = "null"
  \/ l = "script error" \/ l = "script error."
  \/ StartsWith(l, "resizeobserver loop")
  \/ StartsWith(l, "resizeobserver loop completed with undelivered notifications")
  \/ t = "[object Object]"
  \/ t = "[object Event]"
  \/ t = "Object"
  \/ t = "Error"

MatchesIgnoredConsolePattern(m) ==
  LET l == ToLower(m) IN
  \/ StartsWith(l, "[hmr]")
  \/ StartsWith(m, "%c")
  \/ StartsWith(l, "[webpack")
  \/ StartsWith(l, "download the react devtools")
  \/ StartsWithAnyThen(l, "warning: reactdom", "render is no longer supported")
  \/ StartsWith(l, "warning: componentwillmount has been renamed")
  \/ StartsWith(l, "warning: componentwillreceiveprops has been renamed")
  \/ StartsWith(l, "warning: componentwillupdate has been renamed")

shouldIgnoreError(message) ==
  \/ message = ""
  \/ Len(Trim(message)) = 0
  \/ Len(Trim(message)) < 3
  \/ MatchesIgnoredErrorPattern(Trim(message))

shouldIgnoreConsoleError(message) ==
  \/ shouldIgnoreError(message)
  \/ MatchesIgnoredConsolePattern(message)

realErrorTypes ==
  {"Error", "TypeError", "ReferenceError", "SyntaxError", "RangeError", "URIError",
   "EvalError", "AggregateError", "InternalError", "DOMException", "NetworkError",
   "AbortError", "ChunkLoadError"}

isRealError(errorType, message) ==
  LET hasRealType == \E t \in realErrorTypes : Includes(errorType, t) \/ Includes(message, t)
      hasRealMessage == message # "" /\ Len(message) > 5 /\ ~shouldIgnoreError(message)
  IN  hasRealType \/ hasRealMessage

\* ------------------------------------------------------------------------
\* The values of the page: a fixed heap of JavaScript values.  A reference is
\* an index into Heap; reference 0 is undefined.  Fields that a value lacks
\* are "" (strings), 0 (references, numbers) or FALSE.
\* ------------------------------------------------------------------------
NoFields ==
  [isNull |-> FALSE, typeOf |-> "object", instanceofError |-> FALSE,
   instanceofErrorEvent |-> FALSE, instanceofDOMException |-> FALSE,
   name |-> "", type |-> "", hasMessage |-> FALSE, message |-> "", stack |-> "",
   componentStack |-> "", cause |-> 0, error |-> 0, reason |-> 0,
   fileName |-> "", lineNumber |-> 0, columnNumber |-> 0,
   filename |-> "", lineno |-> 0, colno |-> 0,
   json |-> "", jsonThrows |-> FALSE, str |-> "[object Object]", strThrows |-> FALSE,
   ctor |-> "Object"]

JsString(s) == [typeOf |-> "string", str |-> s, ctor |-> "String"] @@ NoFields

JsError(nm, msg, stk) ==
  [instanceofError |-> TRUE, name |-> nm, hasMessage |-> TRUE, message |-> msg,
   stack |-> stk, json |-> "{}", str |-> nm \o ": " \o msg, ctor |-> nm] @@ NoFields

JsObject(f) == f @@ NoFields

StackA == "at render (app.js:10:5)"

Heap ==
  << \* 1: null
     [isNull |-> TRUE, str |-> "null"] @@ NoFields,
     \* 2: a noise string
     JsString("ResizeObserver loop limit exceeded"),
     \* 3: a string too short to be a real error
     JsString("oops"),
     \* 4: a plain message
     JsString("Save failed badly"),
     \* 5: dev-tooling noise for the console filter
     JsString("[HMR] connected"),
     \* 6: new ReferenceError("foo is not defined")
     JsError("ReferenceError", "foo is not defined", StackA),
     \* 7: new TypeError("x.map is not a function")
     JsError("TypeError", "x.map is not a function", StackA),
     \* 8: new Error("Script error.")
     JsError("Error", "Script error.", ""),
     \* 9: the info object of a React error boundary
     JsObject([componentStack |-> "in App", hasMessage |-> TRUE,
               message |-> "Render failed", json |-> "{..}"]),
     \* 10: { message: "Request failed", name: "ApiError" }
     JsObject([hasMessage |-> TRUE, message |-> "Request failed", name |-> "ApiError",
               json |-> "{..}"]),
     \* 11: { error: <7> }
     JsObject([error |-> 7, json |-> "{..}"]),
     \* 12: o with o.reason = o
     JsObject([reason |-> 12, jsonThrows |-> TRUE]),
     \* 13: {}
     JsObject([json |-> "{}"]),
     \* 14: the empty string
     JsString(""),
     \* 15: Object.create(null): no constructor, and String(o) throws a TypeError
     JsObject([json |-> "{}", ctor |-> "", strThrows |-> TRUE]),
     \* 16: a TypeError that a React error boundary gave a componentStack
     [componentStack |-> "in App"]
       @@ JsError("TypeError", "x.map is not a function", StackA),
     \* 17: a plain message that names an undefined identifier
     JsString("foo is not defined"),
     \* 18: { error: <11> }: two wrappers around <7>
     JsObject([error |-> 11, json |-> "{..}"]),
     \* 19: { reason: <18> }: three wrappers around <7>
     JsObject([reason |-> 18, json |-> "{..}"]),
     \* 20: { error: <19> }: four wrappers around <7>
     JsObject([error |-> 19, json |-> "{..}"]),
     \* 21: o with o.error = o
     JsObject([error |-> 21, jsonThrows |-> TRUE]),
     \* 22, 23: a with a.error = b, and b with b.reason = a
     JsObject([error |-> 23, jsonThrows |-> TRUE]),
     JsObject([reason |-> 22, jsonThrows |-> TRUE]),
     \* 24: an Error e with e.cause = e
     [cause |-> 24] @@ JsError("Error", "Retry failed again", StackA),
     \* 25: { name: "ApiError", message: "Request failed", error: <7>, reason: <6> }
     JsObject([hasMessage |-> TRUE, message |-> "Request failed", name |-> "ApiError",
               error |-> 7, reason |-> 6, json |-> "{..}"]),
     \* 26: { error: <7>, reason: <6> }
     JsObject([error |-> 7, reason |-> 6, json |-> "{..}"]),
     \* 27: { error: "", reason: <6> }
     JsObject([error |-> 14, reason |-> 6, json |-> "{..}"]),
     \* 28: { componentStack: "in App", message: "Render failed", error: <7> }
     JsObject([componentStack |-> "in App", hasMessage |-> TRUE,
               message |-> "Render failed", error |-> 7, json |-> "{..}"]) >>

Refs == 1..Len(Heap)

\* getCurrentStack(): the stack of the caller, as the engine reads it
getCurrentStack == "at page (page.js:1:1)"

\* ------------------------------------------------------------------------
\* Error normalizer
\* ------------------------------------------------------------------------
NoInfo ==
  [type |-> "", message |-> "", stack |-> "", componentStack |-> "", cause |-> "",
   fileName |-> "", lineNumber |-> 0, columnNumber |-> 0,
   filename |-> "", lineno |-> 0, colno |-> 0, threw |-> FALSE, deepest |-> 0]

Or(a, b) == IF a # "" THEN a ELSE b

\* the truthiness of a value that is not undefined
TruthyValue(v) == ~v.isNull /\ ~(v.typeOf = "string" /\ v.str = "")

\* the truthiness of the value a reference leads to
Truthy(r) == r # 0 /\ TruthyValue(Heap[r])

\* a field of the value a reference leads to; "" when the reference is undefined (?.)
NameOf(r) == IF r = 0 THEN "" ELSE Heap[r].name
MessageOf(r) == IF r = 0 THEN "" ELSE Heap[r].message
StackOf(r) == IF r = 0 THEN "" ELSE Heap[r].stack

\* a slip: the recursion is cut one level later
MaxDepthReached_OneLater(depth) == depth > 4

\* the test of the first line
MaxDepthReached(depth) == depth > 3

\* threw: the call ended in an exception (String(arg) of an object that has no
\* conversion to a primitive) instead of returning a value.
\* deepest: the greatest depth with which the call or a call below it ran.

\* the branch of an Error instance, causeInfo being what the call for error.cause
\* returned
errorInstanceInfo(v, depth, causeInfo) ==
  [type |-> Or(v.name, "Error"),
   message |-> Or(v.message, "No message"),
   stack |-> v.stack,
   cause |-> IF Truthy(v.cause) THEN causeInfo.message ELSE "",
   threw |-> Truthy(v.cause) /\ causeInfo.threw,
   deepest |-> IF Truthy(v.cause) THEN causeInfo.deepest ELSE depth,
   fileName |-> v.fileName, lineNumber |-> v.lineNumber,
   columnNumber |-> v.columnNumber,
   componentStack |-> v.componentStack] @@ NoInfo

RECURSIVE extractErrorInfo(_, _)

\* the branches for a value v that is neither null nor undefined
RECURSIVE extractErrorInfoOf(_, _)
RECURSIVE extractErrorInfoOf_UnwrapsFirst(_, _)

\* a slip: error and reason are followed before the message is looked at
extractErrorInfoOf_UnwrapsFirst(v, depth) ==
    IF v.instanceofError THEN
      errorInstanceInfo(v, depth,
                        IF Truthy(v.cause) THEN extractErrorInfo(v.cause, depth + 1)
                        ELSE NoInfo)
    ELSE IF v.instanceofErrorEvent THEN
      [type |-> Or(NameOf(v.error), "ErrorEvent"),
       message |-> Or(v.message, Or(MessageOf(v.error), "ErrorEvent")),
       stack |-> StackOf(v.error),
       filename |-> v.filename, lineno |-> v.lineno, colno |-> v.colno,
       deepest |-> depth] @@ NoInfo
    ELSE IF v.instanceofDOMException THEN
      [type |-> "DOMException", message |-> v.message, deepest |-> depth] @@ NoInfo
    ELSE IF v.typeOf = "object" THEN
      IF v.componentStack # "" THEN
        [type |-> "ReactError",
         message |-> Or(v.message, v.str),
         threw |-> (v.message = "" /\ v.strThrows),
         componentStack |-> v.componentStack,
         stack |-> Or(StackOf(v.error), v.stack),
         deepest |-> depth] @@ NoInfo
      ELSE IF Truthy(v.error) \/ Truthy(v.reason) THEN
        extractErrorInfo(IF Truthy(v.error) THEN v.error ELSE v.reason, depth + 1)
      ELSE IF v.hasMessage THEN
        [type |-> Or(v.name, Or(v.type, "ObjectError")),
         message |-> v.message,
         stack |-> v.stack,
         deepest |-> depth] @@ NoInfo
      ELSE IF ~v.jsonThrows /\ v.json # "" /\ v.json # "{}" THEN
        [type |-> "Object", message |-> Slice0(v.json, 2000), deepest |-> depth] @@ NoInfo
      ELSE [type |-> Or(v.ctor, "Object"), message |-> v.str, threw |-> v.strThrows,
            deepest |-> depth] @@ NoInfo
    ELSE [type |-> v.typeOf, message |-> v.str, deepest |-> depth] @@ NoInfo

extractErrorInfoOf(v, depth) ==
    IF v.instanceofError THEN
      errorInstanceInfo(v, depth,
                        IF Truthy(v.cause) THEN extractErrorInfo(v.cause, depth + 1)
                        ELSE NoInfo)
    ELSE IF v.instanceofErrorEvent THEN
      [type |-> Or(NameOf(v.error), "ErrorEvent"),
       message |-> Or(v.message, Or(MessageOf(v.error), "ErrorEvent")),
       stack |-> StackOf(v.error),
       filename |-> v.filename, lineno |-> v.lineno, colno |-> v.colno,
       deepest |-> depth] @@ NoInfo
    ELSE IF v.instanceofDOMException THEN
      [type |-> "DOMException", message |-> v.message, deepest |-> depth] @@ NoInfo
    ELSE IF v.typeOf = "object" THEN
      IF v.componentStack # "" THEN
        [type |-> "ReactError",
         message |-> Or(v.message, v.str),
         threw |-> (v.message = "" /\ v.strThrows),
         componentStack |-> v.componentStack,
         stack |-> Or(StackOf(v.error), v.stack),
         deepest |-> depth] @@ NoInfo
      ELSE IF v.hasMessage THEN
        [type |-> Or(v.name, Or(v.type, "ObjectError")),
         message |-> v.message,
         stack |-> v.stack,
         deepest |-> depth] @@ NoInfo
      \* arg.error first, arg.reason when arg.error is falsy
      ELSE IF Truthy(v.error) \/ Truthy(v.reason) THEN
        extractErrorInfo(IF Truthy(v.error) THEN v.error ELSE v.reason, depth + 1)
      ELSE IF ~v.jsonThrows /\ v.json # "" /\ v.json # "{}" THEN
        [type |-> "Object", message |-> Slice0(v.json, 2000), deepest |-> depth] @@ NoInfo
      ELSE [type |-> Or(v.ctor, "Object"), message |-> v.str, threw |-> v.strThrows,
            deepest |-> depth] @@ NoInfo
    ELSE [type |-> v.typeOf, message |-> v.str, deepest |-> depth] @@ NoInfo

extractErrorInfo(arg, depth) ==
  IF MaxDepthReached(depth) THEN
    [type |-> "unknown", message |-> "[Max depth reached]", deepest |-> depth] @@ NoInfo
  ELSE IF arg # 0 /\ Heap[arg].isNull THEN
    [type |-> "null", message |-> "null", deepest |-> depth] @@ NoInfo
  ELSE IF arg = 0 THEN
    [type |-> "undefined", message |-> "undefined", deepest |-> depth] @@ NoInfo
  ELSE extractErrorInfoOf(Heap[arg], depth)

\* args.map((arg) => extractErrorInfo(arg)) ends in an exception
NormalizerThrows(args) == \E i \in 1..Len(args) : extractErrorInfo(args[i], 0).threw

\* one argument as formatArgs prints it
FormatInfo(info) ==
  IF info.stack # "" THEN info.type \o ": " \o info.message \o "\n" \o info.stack
  ELSE info.message

FormatArg(arg) == FormatInfo(extractErrorInfo(arg, 0))

RECURSIVE JoinSpace(_)
JoinSpace(strs) ==
  IF Len(strs) = 0 THEN ""
  ELSE IF Len(strs) = 1 THEN strs[1]
  ELSE strs[1] \o " " \o JoinSpace(Tail(strs))

formatArgs(args) == JoinSpace([i \in 1..Len(args) |-> FormatArg(args[i])])

\* ------------------------------------------------------------------------
\* State of the main-world script
\* ------------------------------------------------------------------------
VARIABLES
  localErrors,           \* { page, console, api, apiRequests }
  apiBuffer,             \* temporary buffer before an error
  pendingAfterError,     \* requests still to capture after an error
  lastErrorTimestamp,    \* Date.now() of the last failing request, 0 for null
  recentCriticalErrors,
  crashTriggered,
  lastDOMCrashReason,    \* "" for null
  cooldownTimers,        \* due times of the pending setTimeout(..., 10000) callbacks
  sent,                  \* the messages posted by sendToContentScript, in order
  handed,                \* the records handed to storeApiRequest, in order
  nextN,                 \* the arrival number of the next record
  lastCall,              \* how the last call of a wrapped console method ended
  injected,              \* window.__L2AgentMainWorldInjected
  installs,              \* how many times the hooks were put around the originals
  domTimers,             \* the pending setTimeout(checkForDOMCrash, ...) timers:
                         \* when each is due, and whether setupCrashMonitor set it
                         \* ("fixed") or the observer of mutations ("debounce")
  crashTimeout,          \* window.__l2CrashTimeout: the timer the observer set
                         \* last, known by its due time; NoTimer for undefined
  checkLog,              \* what became of the timers of the crash monitor: a run
                         \* of checkForDOMCrash at a time, by a "fixed" or a
                         \* "debounce" timer, or a debounce timer "cleared"
  xhrs,                  \* the wrapped XMLHttpRequest objects of the page
  fetches,               \* the calls of the wrapped fetch
  now,                   \* Date.now()
  bridge,                \* the content script: its data, its last screenshot
                         \* request, what it sent to the background worker, how
                         \* many posted messages its listener has received, the
                         \* messages it posted to the window itself and how many
                         \* of those the browser has dispatched,
  worker                 \* the background service worker: isTrackingEnabled, db,
                         \* the area chrome.storage.local, the results of the
                         \* pending reads of loadFromStorage, the pending captures
                         \* of captureScreenshot and its lastScreenshotTime; how
                         \* many ids genId gave, how many logError messages came
                         \* and which of onInstalled and onStartup have fired

vars ==
  <<localErrors, apiBuffer, pendingAfterError, lastErrorTimestamp, recentCriticalErrors,
    crashTriggered, lastDOMCrashReason, cooldownTimers, sent, handed, nextN, lastCall,
    injected, installs, domTimers, crashTimeout, checkLog, xhrs, fetches, now, bridge, worker>>

SESSION_ID == "k3x9-ab12cd"
LocationHref == "https://app.example/page"

\* the engine's state as one record, which the functions below transform
Cur ==
  [localErrors |-> localErrors, apiBuffer |-> apiBuffer,
   pendingAfterError |-> pendingAfterError, lastErrorTimestamp |-> lastErrorTimestamp,
   recentCriticalErrors |-> recentCriticalErrors, crashTriggered |-> crashTriggered,
   lastDOMCrashReason |-> lastDOMCrashReason, cooldownTimers |-> cooldownTimers,
   sent |-> sent, handed |-> handed, nextN |-> nextN, lastCall |-> lastCall,
   injected |-> injected, installs |-> installs, domTimers |-> domTimers,
   crashTimeout |-> crashTimeout, checkLog |-> checkLog,
   now |-> now]

Becomes(st) ==
  /\ localErrors' = st.localErrors
  /\ apiBuffer' = st.apiBuffer
  /\ pendingAfterError' = st.pendingAfterError
  /\ lastErrorTimestamp' = st.lastErrorTimestamp
  /\ recentCriticalErrors' = st.recentCriticalErrors
  /\ crashTriggered' = st.crashTriggered
  /\ lastDOMCrashReason' = st.lastDOMCrashReason
  /\ cooldownTimers' = st.cooldownTimers
  /\ sent' = st.sent
  /\ handed' = st.handed
  /\ nextN' = st.nextN
  /\ lastCall' = st.lastCall
  /\ injected' = st.injected
  /\ installs' = st.installs
  /\ domTimers' = st.domTimers
  /\ crashTimeout' = st.crashTimeout
  /\ checkLog' = st.checkLog

\* requestScreenshot lets at most one request through per 2 s.  The clock of the
\* model starts at 0, the page's far later: lastScreenshot starts one gap before.
ScreenshotGapMs == 2000

\* no timer is pending
NoTimer == 0 - 1

\* the delays of the three checks that setupCrashMonitor schedules
DomCheckDelays == <<500, 2000, 5000>>

\* the delay of the check that the observer of mutations schedules
DebounceMs == 100

\* the three timers of a setupCrashMonitor that ran at time t
FixedTimers(t) ==
  [i \in 1..Len(DomCheckDelays) |-> [due |-> t + DomCheckDelays[i], kind |-> "fixed"]]

\* the collections of the background worker as declared
EmptyDb ==
  [crashes |-> <<>>, apiErrors |-> <<>>, apiRequests |-> <<>>, consoleErrors |-> <<>>,
   pageErrors |-> <<>>, screenshots |-> <<>>, sessions |-> {}]

\* chrome.storage.local serves its calls in the order in which they are made: a
\* set takes effect when it is called and a get returns the values of that
\* moment, while the continuation of the awaited get runs as a later task.
\* loadFromStorage up to its await: the result of the read is pending
loadFromStorage(w) == [w EXCEPT !.loads = Append(@, w.storage)]

\* the worker once its script has run over the storage area `storage`: the
\* variables as declared and the two top-level calls of loadFromStorage pending.
\* The clock of the model starts at 0, the worker's far later: lastScreenshotTime
\* starts one throttle interval before.
WorkerStart(storage) ==
  loadFromStorage(loadFromStorage(
    [isTrackingEnabled |-> FALSE, db |-> EmptyDb, storage |-> storage, loads |-> <<>>,
     lastScreenshotTime |-> 0 - 1000, captures |-> <<>>, nextId |-> 1, received |-> 0,
     fired |-> {}]))

\* the storage area of a browser in which the user gave consent and an earlier
\* run of the worker saved its empty collections
ConsentedStorage ==
  [errorDb |-> <<EmptyDb>>, userConsent |-> "true", trackingEnabled |-> "true"]

\* the variables of the two scripts as their declarations leave them
Declared ==
  /\ localErrors = [page |-> <<>>, console |-> <<>>, api |-> <<>>, apiRequests |-> <<>>]
  /\ apiBuffer = <<>>
  /\ pendingAfterError = 0
  /\ lastErrorTimestamp = 0
  /\ recentCriticalErrors = <<>>
  /\ crashTriggered = FALSE
  /\ lastDOMCrashReason = ""
  /\ cooldownTimers = <<>>
  /\ sent = <<>>
  /\ handed = <<>>
  /\ nextN = 1
  /\ lastCall = "none"
  /\ xhrs = <<>>
  /\ fetches = <<>>
  /\ now = 0
  /\ bridge = [data |-> [consoleErrors |-> <<>>, pageErrors |-> <<>>, apiErrors |-> <<>>,
                         apiRequests |-> <<>>, crashes |-> <<>>, sessionId |-> "",
                         pageUrl |-> LocationHref],
               lastScreenshot |-> 0 - ScreenshotGapMs,
               outbox |-> <<>>,
               delivered |-> 0,
               toPage |-> <<>>,
               toPageDispatched |-> 0]

\* the page before the main-world script has run
InitPage ==
  /\ Declared
  /\ injected = FALSE
  /\ installs = 0
  /\ domTimers = <<>>
  /\ crashTimeout = NoTimer
  /\ checkLog = <<>>
  /\ worker = WorkerStart(ConsentedStorage)

\* the page once the main-world script has run, at time 0, document.body present
Init ==
  /\ Declared
  /\ injected = TRUE
  /\ installs = 1
  /\ domTimers = FixedTimers(0)
  /\ crashTimeout = NoTimer
  /\ checkLog = <<>>
  /\ worker = WorkerStart(ConsentedStorage)

\* ------------------------------------------------------------------------
\* Send to the content script
\* ------------------------------------------------------------------------
sendToContentScript(st, type, data) ==
  [st EXCEPT !.sent =
     Append(@, [source |-> "L2_AGENT_MAIN_WORLD", type |-> type,
                data |-> [sessionId |-> SESSION_ID, pageUrl |-> LocationHref] @@ data])]

\* ------------------------------------------------------------------------
\* Crash detection, error-based
\* ------------------------------------------------------------------------
CRASH_ERROR_TYPES == {"ReferenceError", "TypeError", "ChunkLoadError", "SyntaxError"}

MatchesCrashErrorPattern(message) ==
  LET l == ToLower(message) IN
  \/ EndsWith(l, "is not defined")
  \/ EndsWith(l, "is not a function")
  \/ Includes(l, "cannot read propert")
  \/ Includes(l, "cannot set propert")
  \/ Includes(l, "undefined is not")
  \/ Includes(l, "null is not")
  \/ Includes(l, "maximum call stack")
  \/ Includes(l, "out of memory")
  \/ IncludesThen(l, "chunk", "failed")
  \/ Includes(l, "loading chunk")
  \/ Includes(l, "dynamically imported module")
  \/ Includes(l, "failed to fetch")

isCriticalError(errorType, message) ==
  \/ errorType \in CRASH_ERROR_TYPES
  \/ MatchesCrashErrorPattern(message)

CooldownMs == 10000

\* a property of an object, or what stands for undefined
FieldOr(r, f, d) == IF f \in DOMAIN r THEN r[f] ELSE d
CriticalWindowMs == 60000

\* a slip: the console and API buffers go into the payload whole
errorCrashBundle_WholeBuffers(st, primaryError) ==
  [type |-> "crash",
   detected |-> TRUE,
   reason |-> "Error: " \o primaryError.errorType \o " - "
                \o Slice0(primaryError.message, 100),
   detectionMethod |-> "error_based",
   primaryError |->
     [type |-> primaryError.errorType, message |-> primaryError.message,
      stack |-> primaryError.stack,
      filename |-> FieldOr(primaryError, "filename", ""),
      lineno |-> FieldOr(primaryError, "lineno", 0),
      colno |-> FieldOr(primaryError, "colno", 0),
      componentStack |-> primaryError.componentStack],
   recentCriticalErrors |-> Last(st.recentCriticalErrors, 10),
   recentConsoleErrors |-> st.localErrors.console,
   recentPageErrors |-> Last(st.localErrors.page, 20),
   recentApiErrors |-> st.localErrors.api,
   recentApiRequests |-> st.localErrors.apiRequests,
   timestamp |-> st.now,
   url |-> LocationHref]

\* the payload of the error_based crash_detected message
errorCrashBundle(st, primaryError) ==
  [type |-> "crash",
   detected |-> TRUE,
   reason |-> "Error: " \o primaryError.errorType \o " - "
                \o Slice0(primaryError.message, 100),
   detectionMethod |-> "error_based",
   primaryError |->
     [type |-> primaryError.errorType, message |-> primaryError.message,
      stack |-> primaryError.stack,
      filename |-> FieldOr(primaryError, "filename", ""),
      lineno |-> FieldOr(primaryError, "lineno", 0),
      colno |-> FieldOr(primaryError, "colno", 0),
      componentStack |-> primaryError.componentStack],
   recentCriticalErrors |-> Last(st.recentCriticalErrors, 10),
   recentConsoleErrors |-> Last(st.localErrors.console, 30),
   recentPageErrors |-> Last(st.localErrors.page, 20),
   recentApiErrors |-> Last(st.localErrors.api, 30),
   recentApiRequests |-> Last(st.localErrors.apiRequests, 50),
   timestamp |-> st.now,
   url |-> LocationHref]

\* a slip: the latch is never set
triggerCrashFromError_NoLatch(st, primaryError) ==
  [sendToContentScript(st, "crash_detected", errorCrashBundle(st, primaryError))
     EXCEPT !.cooldownTimers = Append(@, st.now + CooldownMs)]

triggerCrashFromError(st, primaryError) ==
  LET latched == [st EXCEPT !.crashTriggered = TRUE] IN
  [sendToContentScript(latched, "crash_detected", errorCrashBundle(latched, primaryError))
     EXCEPT !.cooldownTimers = Append(@, st.now + CooldownMs)]

\* a slip: records older than the window are never pruned
checkForErrorBasedCrash_NoPrune(st, entry) ==
  IF isCriticalError(entry.errorType, entry.message) THEN
    LET pushed == Append(st.recentCriticalErrors, [capturedAt |-> st.now] @@ entry)
        st1 == [st EXCEPT !.recentCriticalErrors = pushed]
        shouldTriggerCrash ==
          \/ entry.errorType = "ReferenceError"
          \/ Includes(entry.message, "is not defined")
          \/ entry.componentStack # ""
          \/ Len(pushed) >= 3
    IN  IF shouldTriggerCrash /\ ~st1.crashTriggered
          THEN triggerCrashFromError(st1, entry)
          ELSE st1
  ELSE st

\* a slip: the test of the message for "is not defined" is left out
checkForErrorBasedCrash_NoMessageTest(st, entry) ==
  IF isCriticalError(entry.errorType, entry.message) THEN
    LET pushed == Append(st.recentCriticalErrors, [capturedAt |-> st.now] @@ entry)
        cutoff == st.now - CriticalWindowMs
        kept == SelectSeq(pushed, LAMBDA e : e.capturedAt > cutoff)
        st1 == [st EXCEPT !.recentCriticalErrors = kept]
        shouldTriggerCrash ==
          \/ entry.errorType = "ReferenceError"
          \/ entry.componentStack # ""
          \/ Len(kept) >= 3
    IN  IF shouldTriggerCrash /\ ~st1.crashTriggered
          THEN triggerCrashFromError(st1, entry)
          ELSE st1
  ELSE st

checkForErrorBasedCrash(st, entry) ==
  IF isCriticalError(entry.errorType, entry.message) THEN
    LET pushed == Append(st.recentCriticalErrors, [capturedAt |-> st.now] @@ entry)
        cutoff == st.now - CriticalWindowMs
        kept == SelectSeq(pushed, LAMBDA e : e.capturedAt > cutoff)
        st1 == [st EXCEPT !.recentCriticalErrors = kept]
        shouldTriggerCrash ==
          \/ entry.errorType = "ReferenceError"
          \/ Includes(entry.message, "is not defined")
          \/ entry.componentStack # ""
          \/ Len(kept) >= 3
    IN  IF shouldTriggerCrash /\ ~st1.crashTriggered
          THEN triggerCrashFromError(st1, entry)
          ELSE st1
  ELSE st

\* a slip: the callback releases the latch and keeps the list
cooldownCallback_KeepsErrors(st) ==
  [st EXCEPT !.crashTriggered = FALSE]

\* the callback of the cooldown setTimeout
cooldownCallback(st) ==
  [st EXCEPT !.crashTriggered = FALSE, !.recentCriticalErrors = <<>>]

\* ------------------------------------------------------------------------
\* Ring buffers of localErrors
\* ------------------------------------------------------------------------
ConsoleCap == 100
PageCap == 50
ApiCap == 100
ApiRequestsCap == 100

\* a slip: at capacity the new record, not the oldest, is dropped
PushCapped_DropsNewest(buf, entry, cap) ==
  IF Len(buf) >= cap THEN buf ELSE Append(buf, entry)

\* push, then one shift when the length exceeds the capacity
PushCapped(buf, entry, cap) ==
  LET pushed == Append(buf, entry) IN
  IF Len(pushed) > cap THEN Tail(pushed) ELSE pushed

\* ------------------------------------------------------------------------
\* 1. console.error   2. console.warn   3. console.assert
\* ------------------------------------------------------------------------
\* the first normalized argument that has a stack, else the first, else {}
PrimaryOf(errorInfos, withStack) ==
  IF withStack # {} THEN errorInfos[CHOOSE i \in withStack : \A j \in withStack : i <= j]
  ELSE IF Len(errorInfos) > 0 THEN errorInfos[1]
  ELSE NoInfo

FirstWithStack(errorInfos) ==
  PrimaryOf(errorInfos, {i \in 1..Len(errorInfos) : errorInfos[i].stack # ""})

PrimaryError(args) ==
  FirstWithStack([i \in 1..Len(args) |-> extractErrorInfo(args[i], 0)])

\* the record of console.error
consoleErrorEntry(st, primaryError, message) ==
  [type |-> "console.error",
   errorType |-> Or(primaryError.type, "console.error"),
   message |-> message,
   stack |-> Or(primaryError.stack, getCurrentStack),
   componentStack |-> primaryError.componentStack,
   timestamp |-> st.now,
   url |-> LocationHref,
   n |-> st.nextN]

\* push with trim, post, then the crash check
consoleErrorStore(st, entry) ==
  checkForErrorBasedCrash(
    sendToContentScript(
      [st EXCEPT !.nextN = @ + 1,
                 !.localErrors.console = PushCapped(@, entry, ConsoleCap)],
      "console_error", entry),
    entry)

\* the body of the hook once primaryError and message are computed
consoleErrorFiltered(st, primaryError, message) ==
  IF shouldIgnoreConsoleError(message) THEN st
  ELSE IF ~isRealError(primaryError.type, message) THEN st
  ELSE consoleErrorStore(st, consoleErrorEntry(st, primaryError, message))

\* the call ends in an exception of the hook's own code; _error / _warn / _assert
\* is not reached
Thrown(st) == [st EXCEPT !.lastCall = "threw"]

\* the hook reaches _error.apply / _warn.apply / _assert.apply and returns
OriginalCalled(st) == [st EXCEPT !.lastCall = "returned"]

consoleError(st, args) ==
  IF NormalizerThrows(args) THEN Thrown(st)
  ELSE OriginalCalled(consoleErrorFiltered(st, PrimaryError(args), formatArgs(args)))

consoleWarnRecord(st, args) ==
  LET entry ==
        [type |-> "console.warn",
         errorType |-> "Warning",
         message |-> formatArgs(args),
         stack |-> getCurrentStack,
         timestamp |-> st.now,
         url |-> LocationHref,
         n |-> st.nextN]
      stored == [st EXCEPT !.nextN = @ + 1,
                           !.localErrors.console = PushCapped(@, entry, ConsoleCap)]
  IN  sendToContentScript(stored, "console_warn", entry)

consoleWarn(st, args) ==
  IF NormalizerThrows(args) THEN Thrown(st)
  ELSE OriginalCalled(consoleWarnRecord(st, args))

consoleAssertRecord(st, condition, args) ==
  IF ~condition THEN
    LET entry ==
          [type |-> "console.assert",
           errorType |-> "AssertionError",
           message |-> IF Len(args) > 0 THEN formatArgs(args) ELSE "Assertion failed",
           stack |-> getCurrentStack,
           timestamp |-> st.now,
           url |-> LocationHref,
           n |-> st.nextN]
        stored == [st EXCEPT !.nextN = @ + 1,
                             !.localErrors.console = Append(@, entry)]
    IN  sendToContentScript(stored, "console_error", entry)
  ELSE st

consoleAssert(st, condition, args) ==
  IF ~condition /\ Len(args) > 0 /\ NormalizerThrows(args) THEN Thrown(st)
  ELSE OriginalCalled(consoleAssertRecord(st, condition, args))

\* ------------------------------------------------------------------------
\* 4. window "error" listener   5. "unhandledrejection" listener
\* ------------------------------------------------------------------------
\* errorInfo of the window error listener
windowErrorInfo(e) ==
  IF Truthy(e.error) THEN extractErrorInfo(e.error, 0)
  ELSE IF e.message # "" THEN
    [type |-> "Error", message |-> e.message, filename |-> e.filename,
     lineno |-> e.lineno, colno |-> e.colno] @@ NoInfo
  ELSE [type |-> "Error"] @@ NoInfo

\* the record of the window error listener
windowErrorEntry(st, e, errorInfo, message) ==
  [type |-> "uncaught_error",
   errorType |-> Or(errorInfo.type, "Error"),
   message |-> Or(message, "Uncaught error"),
   filename |-> Or(e.filename, errorInfo.fileName),
   lineno |-> IF e.lineno # 0 THEN e.lineno ELSE errorInfo.lineNumber,
   colno |-> IF e.colno # 0 THEN e.colno ELSE errorInfo.columnNumber,
   stack |-> Or(errorInfo.stack, StackOf(e.error)),
   componentStack |-> errorInfo.componentStack,
   timestamp |-> st.now,
   url |-> LocationHref,
   n |-> st.nextN]

\* a slip: the crash check runs before the record is stored and posted
pageErrorStore_ChecksFirst(st, type, entry) ==
  sendToContentScript(
    [checkForErrorBasedCrash(st, entry)
       EXCEPT !.nextN = @ + 1,
              !.localErrors.page = PushCapped(@, entry, PageCap)],
    type, entry)

\* push with trim into pageErrors, post under `type`, then the crash check
pageErrorStore(st, type, entry) ==
  checkForErrorBasedCrash(
    sendToContentScript(
      [st EXCEPT !.nextN = @ + 1,
                 !.localErrors.page = PushCapped(@, entry, PageCap)],
      type, entry),
    entry)

\* the body of the listener once errorInfo and message are computed
windowErrorFiltered(st, e, errorInfo, message) ==
  LET hasUsefulInfo ==
        \/ e.filename # ""
        \/ e.lineno > 0
        \/ errorInfo.stack # ""
  IN
  IF shouldIgnoreError(message) THEN st
  ELSE IF ~hasUsefulInfo /\ ~isRealError(errorInfo.type, message) THEN st
  ELSE pageErrorStore(st, "page_error", windowErrorEntry(st, e, errorInfo, message))

\* an exception of extractErrorInfo ends the listener before anything is stored
windowErrorWithInfo(st, e, errorInfo) ==
  IF errorInfo.threw THEN st
  ELSE windowErrorFiltered(st, e, errorInfo, Or(errorInfo.message, e.message))

\* e: [error (a reference, 0 when absent), message, filename, lineno, colno]
onWindowError(st, e) == windowErrorWithInfo(st, e, windowErrorInfo(e))

\* the record of the unhandledrejection listener
rejectionEntry(st, reason, errorInfo) ==
  [type |-> "unhandled_rejection",
   errorType |-> Or(errorInfo.type, "PromiseRejection"),
   message |-> Or(errorInfo.message, "Promise rejected"),
   stack |-> errorInfo.stack,
   componentStack |-> errorInfo.componentStack,
   reason |-> IF reason # 0 /\ Heap[reason].typeOf = "object"
                THEN Slice0(Heap[reason].json, 2000)
                ELSE IF reason = 0 THEN "undefined" ELSE Heap[reason].str,
   timestamp |-> st.now,
   url |-> LocationHref,
   n |-> st.nextN]

\* the body of the listener once errorInfo is computed
rejectionFiltered(st, reason, errorInfo) ==
  \* an exception of extractErrorInfo ends the listener before anything is stored
  IF errorInfo.threw THEN st
  ELSE IF shouldIgnoreError(errorInfo.message) THEN st
  ELSE IF ~isRealError(errorInfo.type, errorInfo.message) THEN st
  \* JSON.stringify(e.reason) throws out of the listener before anything is stored
  ELSE IF reason # 0 /\ Heap[reason].typeOf = "object" /\ Heap[reason].jsonThrows THEN st
  ELSE pageErrorStore(st, "promise_rejection", rejectionEntry(st, reason, errorInfo))

\* reason: a reference to the rejection's reason
onUnhandledRejection(st, reason) ==
  rejectionFiltered(st, reason, extractErrorInfo(reason, 0))

\* ------------------------------------------------------------------------
\* API storage helper: the sliding window around errors
\* ------------------------------------------------------------------------
API_BUFFER_SIZE == 4
API_AFTER_ERROR_COUNT == 3

RECURSIVE SendAll(_, _, _)
SendAll(st, type, entries) ==
  IF Len(entries) = 0 THEN st
  ELSE SendAll(sendToContentScript(st, type, Head(entries)), type, Tail(entries))

\* a slip: the flushed buffer is not reset
flushApiBuffer_KeepsBuffer(st) ==
  [SendAll(st, "api_request", st.apiBuffer) EXCEPT
     !.localErrors.apiRequests = @ \o st.apiBuffer]

\* the buffered "before" requests go to the storage, the buffer is reset
flushApiBuffer(st) ==
  [SendAll(st, "api_request", st.apiBuffer) EXCEPT
     !.localErrors.apiRequests = @ \o st.apiBuffer,
     !.apiBuffer = <<>>]

\* entry.isError: flush the buffer, add the error, arm the after-window
storeOnError(st, entry) ==
  LET flushed == flushApiBuffer(st)
      added ==
        sendToContentScript(
          [flushed EXCEPT !.localErrors.apiRequests = Append(@, entry)],
          "api_request", entry)
      asError ==
        sendToContentScript(
          [added EXCEPT !.localErrors.api = PushCapped(@, entry, ApiCap)],
          "api_error", entry)
  IN  [asError EXCEPT !.pendingAfterError = API_AFTER_ERROR_COUNT,
                      !.lastErrorTimestamp = st.now]

\* a slip: the countdown of the after-window is forgotten
storeAfterError_NoCountdown(st, entry) ==
  sendToContentScript(
    [st EXCEPT !.localErrors.apiRequests = Append(@, entry)], "api_request", entry)

\* pendingAfterError > 0: "after error" mode
storeAfterError(st, entry) ==
  [sendToContentScript(
     [st EXCEPT !.localErrors.apiRequests = Append(@, entry)], "api_request", entry)
   EXCEPT !.pendingAfterError = @ - 1]

\* a slip: a full buffer keeps its records and drops the new one
storeBuffered_KeepsOldest(st, entry) ==
  [st EXCEPT !.apiBuffer = IF Len(@) >= API_BUFFER_SIZE THEN @ ELSE Append(@, entry)]

\* normal mode: add to the buffer, kept at its maximum size
storeBuffered(st, entry) ==
  [st EXCEPT !.apiBuffer = PushCapped(@, entry, API_BUFFER_SIZE)]

\* the body of storeApiRequest
storeApiRequestBody(st, entry) ==
  LET branch ==
        IF entry.isError THEN storeOnError(st, entry)
        ELSE IF st.pendingAfterError > 0 THEN storeAfterError(st, entry)
        ELSE storeBuffered(st, entry)
  IN  \* Trim storage
      IF Len(branch.localErrors.apiRequests) > ApiRequestsCap
        THEN [branch EXCEPT !.localErrors.apiRequests = Tail(@)]
        ELSE branch

\* storeApiRequest, with the record of the call
storeApiRequest(st, entry) ==
  storeApiRequestBody([st EXCEPT !.handed = Append(@, entry)], entry)

\* ------------------------------------------------------------------------
\* Trace id of a response
\* ------------------------------------------------------------------------
\* The header list of a response is a sequence of <<name, value>> pairs, the names
\* in lower case and no name twice, as the browser keeps it.
TRACE_ID_HEADERS ==
  << "x-trace-id", "x-request-id", "x-correlation-id", "traceparent",
     "x-amzn-trace-id", "x-b3-traceid", "request-id", "x-cloud-trace-context" >>

\* the result null of extractTraceId; "" stands for null in traceId / traceIdHeader
NoTrace == [header |-> "", value |-> ""]

TraceHeaderNames == {TRACE_ID_HEADERS[i] : i \in 1..Len(TRACE_ID_HEADERS)}

\* the first header of the list, in its order, for which getHeader gives a truthy
\* value; getHeader, the callback, is a function on the names of the list
extractTraceId(getHeader) ==
  LET found == {i \in 1..Len(TRACE_ID_HEADERS) : getHeader[TRACE_ID_HEADERS[i]] # ""} IN
  IF found = {} THEN NoTrace
  ELSE LET first == CHOOSE i \in found : \A j \in found : i <= j
       IN  [header |-> TRACE_ID_HEADERS[first], value |-> getHeader[TRACE_ID_HEADERS[first]]]

\* Headers.prototype.get: the value under the name, whatever its case; "" for null
HeadersGet(headers, h) ==
  LET at == {i \in 1..Len(headers) : headers[i][1] = ToLower(h)} IN
  IF at = {} THEN "" ELSE headers[CHOOSE i \in at : TRUE][2]

\* xhr.getAllResponseHeaders(): one "name: value\r\n" line per header
RECURSIVE getAllResponseHeaders(_)
getAllResponseHeaders(headers) ==
  IF Len(headers) = 0 THEN ""
  ELSE headers[1][1] \o ": " \o headers[1][2] \o "\r\n" \o getAllResponseHeaders(Tail(headers))

\* String.prototype.split(sep) for a non-empty separator
RECURSIVE Split(_, _)
Split(str, sep) ==
  LET at == Occurrences(str, sep) IN
  IF at = {} THEN <<str>>
  ELSE LET i == CHOOSE k \in at : \A l \in at : k <= l
       IN  <<SubSeq(str, 1, i - 1)>> \o Split(SubSeq(str, i + Len(sep), Len(str)), sep)

\* Array.prototype.join(sep)
RECURSIVE Join(_, _)
Join(strs, sep) ==
  IF Len(strs) = 0 THEN ""
  ELSE IF Len(strs) = 1 THEN strs[1]
  ELSE strs[1] \o sep \o Join(Tail(strs), sep)

\* a slip: the value is cut at its first ": "
parseResponseHeaders_CutsValue(headerStr) ==
  LET lines == Split(headerStr, "\r\n")
      parts == [i \in 1..Len(lines) |-> Split(lines[i], ": ")]
      assigned == [i \in 1..Len(lines) |->
                    <<ToLower(parts[i][1]),
                      IF Len(parts[i]) > 1 THEN parts[i][2] ELSE "">>]
  IN  SelectSeq(assigned, LAMBDA kv : kv[1] # "")

\* the responseHeaders object of the loadend listener as the assignments that built
\* it, in order: one <<key, value>> per line that has a key
parseResponseHeaders(headerStr) ==
  LET lines == Split(headerStr, "\r\n")
      parts == [i \in 1..Len(lines) |-> Split(lines[i], ": ")]
      assigned == [i \in 1..Len(lines) |->
                    <<ToLower(parts[i][1]), Join(Tail(parts[i]), ": ")>>]
  IN  SelectSeq(assigned, LAMBDA kv : kv[1] # "")

\* responseHeaders[key]: the value last assigned under the key; "" for undefined
ObjectGet(obj, key) ==
  LET at == {i \in 1..Len(obj) : obj[i][1] = key} IN
  IF at = {} THEN "" ELSE obj[CHOOSE i \in at : \A j \in at : j <= i][2]

\* the trace id as the loadend listener finds it
xhrTraceInfo(headers) ==
  extractTraceId([h \in TraceHeaderNames |->
                   ObjectGet(parseResponseHeaders(getAllResponseHeaders(headers)),
                             ToLower(h))])

\* the trace id as the fetch wrapper finds it
fetchTraceInfo(headers) ==
  extractTraceId([h \in TraceHeaderNames |-> HeadersGet(headers, h)])

\* ------------------------------------------------------------------------
\* Bodies of requests and responses
\* ------------------------------------------------------------------------
\* A body handed to send() or fetch(): nothing, a string, or an object such as a
\* FormData, with str what String(body) gives.
BodyNone == [typeOf |-> "undefined", str |-> "undefined"]
BodyString(str) == [typeOf |-> "string", str |-> str]
BodyForm == [typeOf |-> "object", str |-> "[object FormData]"]

BodyTruthy(body) ==
  /\ body.typeOf # "undefined"
  /\ ~(body.typeOf = "string" /\ body.str = "")

\* slice(0, 10000) of the four bodies
BodyLimit == 10000

\* req.body of xhr.send(body); "" for null
xhrRequestBody(body) ==
  IF BodyTruthy(body) THEN Slice0(body.str, BodyLimit) ELSE ""

\* responseBody of the loadend listener; a responseText that cannot be read
\* leaves ""
xhrResponseBody(responseText) == Slice0(responseText, BodyLimit)

\* requestBody of the fetch wrapper; "" for null
fetchRequestBody(body) ==
  IF ~BodyTruthy(body) THEN ""
  ELSE IF body.typeOf = "string" THEN Slice0(body.str, BodyLimit)
  ELSE "[Binary/FormData]"

\* a slip: the text of the response is kept whole
fetchResponseBody_Whole(text) == text

\* responseBody of the fetch wrapper; a clone whose text cannot be read leaves ""
fetchResponseBody(text) == Slice0(text, BodyLimit)

\* ------------------------------------------------------------------------
\* 6. XHR interception
\* ------------------------------------------------------------------------
\* An object of the wrapped constructor: req.method and req.url as open() last set
\* them, req.body as send() last set it, `opens` and `sends` the calls of open()
\* and send() so far, headers and responseText what the last response brought.
\* Every send() adds one loadend, one error and one timeout listener, all closing
\* over req.
NewXhr ==
  [method |-> "", url |-> "", opens |-> 0, sends |-> 0, inflight |-> FALSE,
   headers |-> <<>>, body |-> "", responseText |-> ""]

xhrLoadendEntry(st, req, status, traceInfo) ==
  [type |-> "xhr", method |-> req.method, url |-> req.url, status |-> status,
   requestBody |-> req.body, responseBody |-> xhrResponseBody(req.responseText),
   traceId |-> traceInfo.value, traceIdHeader |-> traceInfo.header,
   isError |-> (status = 0 \/ status >= 400),
   timestamp |-> st.now, n |-> st.nextN]

xhrLoadendListener(st, req, status, headers) ==
  storeApiRequest([st EXCEPT !.nextN = @ + 1],
                  xhrLoadendEntry(st, req, status, xhrTraceInfo(headers)))

xhrErrorListener(st, req) ==
  LET entry ==
        [type |-> "xhr_network_error", method |-> req.method, url |-> req.url,
         status |-> 0, error |-> "Network error", isError |-> TRUE,
         timestamp |-> st.now, n |-> st.nextN]
  IN  storeApiRequest([st EXCEPT !.nextN = @ + 1], entry)

xhrTimeoutListener(st, req) ==
  LET entry ==
        [type |-> "xhr_timeout", method |-> req.method, url |-> req.url,
         status |-> 0, error |-> "Request timeout", isError |-> TRUE,
         timestamp |-> st.now, n |-> st.nextN]
  IN  storeApiRequest([st EXCEPT !.nextN = @ + 1], entry)

\* the browser dispatches one event to the k listeners registered for it, in order
RECURSIVE DispatchLoadend(_, _, _, _, _)
DispatchLoadend(st, req, status, headers, k) ==
  IF k = 0 THEN st
  ELSE DispatchLoadend(xhrLoadendListener(st, req, status, headers), req, status, headers,
                       k - 1)

RECURSIVE DispatchError(_, _, _)
DispatchError(st, req, k) ==
  IF k = 0 THEN st ELSE DispatchError(xhrErrorListener(st, req), req, k - 1)

RECURSIVE DispatchTimeout(_, _, _)
DispatchTimeout(st, req, k) ==
  IF k = 0 THEN st ELSE DispatchTimeout(xhrTimeoutListener(st, req), req, k - 1)

\* The events of one request's end, as the XMLHttpRequest standard fires them:
\* load, loadend | error, loadend | timeout, loadend | abort, loadend.
\* xhr.status is 0 and there are no response headers unless the response arrived.
xhrSettle(st, req, outcome, status, headers) ==
  IF outcome = "load" THEN DispatchLoadend(st, req, status, headers, req.sends)
  ELSE IF outcome = "error" THEN
    DispatchLoadend(DispatchError(st, req, req.sends), req, 0, <<>>, req.sends)
  ELSE IF outcome = "timeout" THEN
    DispatchLoadend(DispatchTimeout(st, req, req.sends), req, 0, <<>>, req.sends)
  ELSE DispatchLoadend(st, req, 0, <<>>, req.sends)

\* ------------------------------------------------------------------------
\* 7. fetch interception
\* ------------------------------------------------------------------------
\* Response.ok
ResponseOk(status) == status >= 200 /\ status <= 299

\* after `await _fetch(input, init)` and `await clone.text()` (which may have failed)
fetchEntry(st, call, traceInfo) ==
  [type |-> "fetch", method |-> call.method, url |-> call.url,
   status |-> call.status,
   requestBody |-> call.requestBody,
   responseBody |-> fetchResponseBody(call.responseText),
   traceId |-> traceInfo.value, traceIdHeader |-> traceInfo.header,
   isError |-> ~ResponseOk(call.status),
   timestamp |-> st.now, n |-> st.nextN]

fetchOnResponse(st, call) ==
  storeApiRequest([st EXCEPT !.nextN = @ + 1],
                  fetchEntry(st, call, fetchTraceInfo(call.headers)))

\* the catch block: _fetch rejected
fetchOnReject(st, call) ==
  LET entry ==
        [type |-> "fetch_error", method |-> call.method, url |-> call.url,
         status |-> 0, error |-> "Failed to fetch", errorType |-> "TypeError",
         requestBody |-> call.requestBody,
         isError |-> TRUE, timestamp |-> st.now, n |-> st.nextN]
  IN  storeApiRequest([st EXCEPT !.nextN = @ + 1], entry)

\* ------------------------------------------------------------------------
\* 8. DOM-based crash detection
\* ------------------------------------------------------------------------
CRASH_SELECTORS ==
  << "[class*=\"error-page\"]", "[class*=\"error-screen\"]", "[class*=\"crash\"]",
     "[class*=\"something-went-wrong\"]", "[data-testid*=\"error\"]", ".error-boundary",
     "[class*=\"fatal-error\"]", "[class*=\"app-error\"]", "[class*=\"server-error\"]",
     "[class*=\"ErrorBoundary\"]", "[role=\"alert\"][class*=\"error\"]" >>

\* A document is a set of [sel, visible, text, html]: for selector number sel,
\* the first element querySelector finds.
QuerySelector(dom, i) == {el \in dom : el.sel = i}

DomHit(dom, i) ==
  \E el \in QuerySelector(dom, i) : el.visible /\ Len(Trim(el.text)) >= 5

detectDOMCrash(dom) ==
  LET hits == {i \in 1..Len(CRASH_SELECTORS) : DomHit(dom, i)} IN
  IF hits = {} THEN [detected |-> FALSE, reason |-> ""]
  ELSE LET i == CHOOSE h \in hits : \A g \in hits : h <= g
           el == CHOOSE x \in QuerySelector(dom, i) : TRUE
       IN  [detected |-> TRUE, reason |-> "Element: " \o CRASH_SELECTORS[i],
            text |-> Slice0(Trim(el.text), 500), html |-> Slice0(el.html, 1000)]

\* a slip: the reason is remembered only when the event is posted
checkForDOMCrash_RecordsOnEmit(st, dom) ==
  LET crash == detectDOMCrash(dom) IN
  IF crash.detected /\ crash.reason # st.lastDOMCrashReason /\ ~st.crashTriggered THEN
    sendToContentScript([st EXCEPT !.lastDOMCrashReason = crash.reason], "crash_detected",
      [type |-> "crash",
       detectionMethod |-> "dom_based",
       recentConsoleErrors |-> Last(st.localErrors.console, 30),
       recentPageErrors |-> Last(st.localErrors.page, 20),
       recentApiErrors |-> Last(st.localErrors.api, 30),
       recentApiRequests |-> Last(st.localErrors.apiRequests, 50),
       timestamp |-> st.now,
       url |-> LocationHref] @@ crash)
  ELSE st

checkForDOMCrash(st, dom) ==
  LET crash == detectDOMCrash(dom) IN
  IF crash.detected /\ crash.reason # st.lastDOMCrashReason THEN
    LET seen == [st EXCEPT !.lastDOMCrashReason = crash.reason] IN
    IF ~seen.crashTriggered THEN
      sendToContentScript(seen, "crash_detected",
        [type |-> "crash",
         detectionMethod |-> "dom_based",
         recentConsoleErrors |-> Last(seen.localErrors.console, 30),
         recentPageErrors |-> Last(seen.localErrors.page, 20),
         recentApiErrors |-> Last(seen.localErrors.api, 30),
         recentApiRequests |-> Last(seen.localErrors.apiRequests, 50),
         timestamp |-> seen.now,
         url |-> LocationHref] @@ crash)
    ELSE seen
  ELSE st

\* three checks at fixed delays; the observer of mutations has nothing pending yet
setupCrashMonitor(st) ==
  [st EXCEPT !.domTimers = @ \o FixedTimers(st.now)]

\* a slip: the pending timer is not cleared
onMutation_NoClear(st) ==
  [st EXCEPT !.domTimers = Append(@, [due |-> st.now + DebounceMs, kind |-> "debounce"]),
             !.crashTimeout = st.now + DebounceMs]

\* the callback of the MutationObserver: clearTimeout(window.__l2CrashTimeout),
\* which does nothing when that timer has run, then a new timer of 100 ms
onMutation(st) ==
  LET kept == SelectSeq(st.domTimers,
                        LAMBDA t : ~(t.kind = "debounce" /\ t.due = st.crashTimeout))
  IN  [st EXCEPT !.domTimers =
                   Append(kept, [due |-> st.now + DebounceMs, kind |-> "debounce"]),
                 !.crashTimeout = st.now + DebounceMs,
                 !.checkLog = IF Len(kept) < Len(st.domTimers)
                                THEN Append(@, [at |-> st.now, kind |-> "cleared"])
                                ELSE @]

\* the pending timer that is due first (the one set first among equals)
NextTimer(st) ==
  CHOOSE i \in 1..Len(st.domTimers) :
    \A j \in 1..Len(st.domTimers) :
      \/ st.domTimers[i].due < st.domTimers[j].due
      \/ (st.domTimers[i].due = st.domTimers[j].due /\ i <= j)

RemoveAt(seq, i) == SubSeq(seq, 1, i - 1) \o SubSeq(seq, i + 1, Len(seq))

\* timer i runs checkForDOMCrash on the document as it is then
domTimerFire(st, i, dom) ==
  checkForDOMCrash(
    [st EXCEPT !.domTimers = RemoveAt(@, i),
               !.checkLog = Append(@, [at |-> st.now, kind |-> st.domTimers[i].kind])],
    dom)

\* ------------------------------------------------------------------------
\* The main-world script as a whole: once per page
\* ------------------------------------------------------------------------
\* a slip: the script does not look at the flag
mainWorldScript_NoGuard(st) ==
  setupCrashMonitor([st EXCEPT !.injected = TRUE, !.installs = @ + 1])

\* One run of the script, document.body present: nothing when the flag is set,
\* else the flag is set, the hooks go around what console.error, console.warn,
\* console.assert, XMLHttpRequest and fetch are at that moment, the two listeners
\* are added and the crash monitor is set up.
mainWorldScript(st) ==
  IF st.injected THEN st
  ELSE setupCrashMonitor([st EXCEPT !.injected = TRUE, !.installs = @ + 1])

\* what one layer of hooks does with a call of the page or an event of the browser
HookOnce(st, call) ==
  CASE call.hook = "console.error" -> consoleError(st, call.args)
    [] call.hook = "console.warn" -> consoleWarn(st, call.args)
    [] call.hook = "error" -> onWindowError(st, call.e)
    [] call.hook = "xhr" ->
         xhrLoadendListener(st, [NewXhr EXCEPT !.method = "GET", !.url = call.url,
                                               !.opens = 1, !.sends = 1],
                            call.status, <<>>)
    [] call.hook = "fetch" ->
         fetchOnResponse(st, [method |-> "GET", url |-> call.url, status |-> call.status,
                              headers |-> <<>>, requestBody |-> "", responseText |-> "",
                              pc |-> "done", result |-> "response"])

\* Each installation wraps what the one before left in place, and adds listeners
\* of its own: a call runs through k layers, an event reaches k listeners.
RECURSIVE Layered(_, _, _)
Layered(st, call, k) ==
  IF k = 0 THEN st ELSE Layered(HookOnce(st, call), call, k - 1)

\* ------------------------------------------------------------------------
\* The content script (isolated world): the mirror of the posted records
\* ------------------------------------------------------------------------
MirrorConsoleCap == 100
MirrorPageCap == 50
MirrorApiCap == 100
MirrorApiRequestsCap == 200

sendToBackground(b, type, payload) ==
  [b EXCEPT !.outbox =
     Append(@, [action |-> "logError", errorType |-> type,
                data |-> [sessionId |-> Or(b.data.sessionId, payload.sessionId),
                          pageUrl |-> b.data.pageUrl] @@ payload])]

requestScreenshot(b, reason, t) ==
  IF t - b.lastScreenshot < ScreenshotGapMs THEN b
  ELSE [b EXCEPT !.lastScreenshot = t,
                 !.outbox = Append(@, [action |-> "autoScreenshot", reason |-> reason])]

\* the crash payload with the four context slices taken from the mirror
enrichedCrash(b, payload) ==
  [recentConsoleErrors |-> Last(b.data.consoleErrors, 30),
   recentApiErrors |-> Last(b.data.apiErrors, 30),
   recentPageErrors |-> Last(b.data.pageErrors, 20),
   recentApiRequests |-> Last(b.data.apiRequests, 50)] @@ payload

\* case "crash_detected"
bridgeOnCrash(b, enriched, t) ==
  requestScreenshot(
    sendToBackground([b EXCEPT !.data.crashes = Append(@, enriched)],
                     "crash_detected", enriched),
    "crash", t)

\* the other cases of the switch: the record goes into its mirror array
bridgeStore(b, type, payload) ==
  IF type \in {"console_error", "console_warn"} THEN
    [b EXCEPT !.data.consoleErrors = PushCapped(@, payload, MirrorConsoleCap)]
  ELSE IF type \in {"page_error", "promise_rejection"} THEN
    [b EXCEPT !.data.pageErrors = PushCapped(@, payload, MirrorPageCap)]
  ELSE IF type = "api_error" THEN
    [b EXCEPT !.data.apiErrors = PushCapped(@, payload, MirrorApiCap)]
  ELSE IF type = "api_request" THEN
    [b EXCEPT !.data.apiRequests = PushCapped(@, payload, MirrorApiRequestsCap)]
  ELSE b

\* after the switch: forward, and ask for a screenshot for page errors
bridgeForward(b, type, payload, t) ==
  IF type \in {"page_error", "promise_rejection"}
    THEN requestScreenshot(sendToBackground(b, type, payload), type, t)
    ELSE sendToBackground(b, type, payload)

\* the listener once the session id is taken over
bridgeDispatch(b, type, payload, t) ==
  IF type = "crash_detected" THEN bridgeOnCrash(b, enrichedCrash(b, payload), t)
  ELSE bridgeForward(bridgeStore(b, type, payload), type, payload, t)

\* a slip: every message's session id is taken over
onMainWorldMessage_TakesEverySession(b, msg, t) ==
  bridgeDispatch(
    IF msg.data.sessionId # ""
      THEN [b EXCEPT !.data.sessionId = msg.data.sessionId]
      ELSE b,
    msg.type, msg.data, t)

\* window "message" listener of the content script, for a message of the main world
onMainWorldMessage(b, msg, t) ==
  bridgeDispatch(
    IF msg.data.sessionId # "" /\ b.data.sessionId = ""
      THEN [b EXCEPT !.data.sessionId = msg.data.sessionId]
      ELSE b,
    msg.type, msg.data, t)

\* the listener for a message of any sender in the window
onWindowMessage(b, msg, t) ==
  IF msg.source # "L2_AGENT_MAIN_WORLD" THEN b ELSE onMainWorldMessage(b, msg, t)

\* the request "triggerTestError": a message for the main world is posted
triggerTestError(b) ==
  [b EXCEPT !.toPage = Append(@, [source |-> "L2_AGENT_CONTENT",
                                  action |-> "triggerTestError"])]

\* The "message" listeners of the main-world script: it registers none (its
\* listeners are "error" and "unhandledrejection"), so a message event leaves
\* the engine as it is.
mainWorldOnMessage(st, msg) == st

\* the answer to the request "getErrors"
getErrors(b) ==
  [success |-> TRUE,
   data |-> [consoleErrors |-> b.data.consoleErrors, pageErrors |-> b.data.pageErrors,
             apiErrors |-> b.data.apiErrors, apiRequests |-> b.data.apiRequests,
             crashes |-> b.data.crashes, sessionId |-> b.data.sessionId,
             pageUrl |-> b.data.pageUrl]]

\* the request "clearErrors": the five arrays of the mirror are replaced by empty ones
clearErrors(b) ==
  [b EXCEPT !.data.consoleErrors = <<>>, !.data.pageErrors = <<>>,
            !.data.apiErrors = <<>>, !.data.apiRequests = <<>>, !.data.crashes = <<>>]

\* ------------------------------------------------------------------------
\* Actions: one per hook, listener, callback or step of a wrapped call
\* ------------------------------------------------------------------------
ConsoleError(args) ==
  Becomes(consoleError(Cur, args)) /\ UNCHANGED <<xhrs, fetches, now, bridge, worker>>

ConsoleWarn(args) ==
  Becomes(consoleWarn(Cur, args)) /\ UNCHANGED <<xhrs, fetches, now, bridge, worker>>

ConsoleAssert(condition, args) ==
  Becomes(consoleAssert(Cur, condition, args)) /\ UNCHANGED <<xhrs, fetches, now, bridge, worker>>

WindowError(e) ==
  Becomes(onWindowError(Cur, e)) /\ UNCHANGED <<xhrs, fetches, now, bridge, worker>>

UnhandledRejection(reason) ==
  Becomes(onUnhandledRejection(Cur, reason)) /\ UNCHANGED <<xhrs, fetches, now, bridge, worker>>

CheckForDOMCrash(dom) ==
  Becomes(checkForDOMCrash(Cur, dom)) /\ UNCHANGED <<xhrs, fetches, now, bridge, worker>>

\* a cooldown timer that is due runs its callback
CooldownFire ==
  /\ cooldownTimers # <<>>
  /\ Head(cooldownTimers) <= now
  /\ Becomes(cooldownCallback([Cur EXCEPT !.cooldownTimers = Tail(@)]))
  /\ UNCHANGED <<xhrs, fetches, now, bridge, worker>>

\* the next posted message, in posting order, reaches the content script's listener
Deliver ==
  /\ bridge.delivered < Len(sent)
  /\ bridge' = onMainWorldMessage([bridge EXCEPT !.delivered = @ + 1],
                                  sent[bridge.delivered + 1], now)
  /\ UNCHANGED <<localErrors, apiBuffer, pendingAfterError, lastErrorTimestamp,
                 recentCriticalErrors, crashTriggered, lastDOMCrashReason, cooldownTimers,
                 sent, handed, nextN, lastCall, injected, installs,
                 domTimers, crashTimeout, checkLog, xhrs, fetches, now, worker>>

\* the content script handles the request "clearErrors" of the popup; the main
\* world script listens to no message and is not told
ClearErrors ==
  /\ bridge' = clearErrors(bridge)
  /\ UNCHANGED <<localErrors, apiBuffer, pendingAfterError, lastErrorTimestamp,
                 recentCriticalErrors, crashTriggered, lastDOMCrashReason, cooldownTimers,
                 sent, handed, nextN, lastCall, injected, installs,
                 domTimers, crashTimeout, checkLog, xhrs, fetches, now, worker>>

\* the DOM of the page changes and the observer's callback runs
Mutation ==
  Becomes(onMutation(Cur)) /\ UNCHANGED <<xhrs, fetches, now, bridge, worker>>

\* the timer that is due first has become due and runs
DomTimerFire(dom) ==
  /\ domTimers # <<>>
  /\ domTimers[NextTimer(Cur)].due <= now
  /\ Becomes(domTimerFire(Cur, NextTimer(Cur), dom))
  /\ UNCHANGED <<xhrs, fetches, now, bridge, worker>>

\* the script element of the main-world script is run
RunMainWorldScript ==
  Becomes(mainWorldScript(Cur)) /\ UNCHANGED <<xhrs, fetches, now, bridge, worker>>

\* the page makes a call, or the browser fires an event, with whatever hooks are
\* installed at that moment
PageCall(call) ==
  Becomes(Layered(Cur, call, installs)) /\ UNCHANGED <<xhrs, fetches, now, bridge, worker>>

\* another script of the page posts a message to the window; the content script's
\* listener receives it like any other
ForeignMessage(msg) ==
  /\ bridge' = onWindowMessage(bridge, msg, now)
  /\ UNCHANGED <<localErrors, apiBuffer, pendingAfterError, lastErrorTimestamp,
                 recentCriticalErrors, crashTriggered, lastDOMCrashReason, cooldownTimers,
                 sent, handed, nextN, lastCall, injected, installs,
                 domTimers, crashTimeout, checkLog, xhrs, fetches, now, worker>>

\* the content script handles the request "triggerTestError"
TriggerTestError ==
  /\ bridge' = triggerTestError(bridge)
  /\ UNCHANGED <<localErrors, apiBuffer, pendingAfterError, lastErrorTimestamp,
                 recentCriticalErrors, crashTriggered, lastDOMCrashReason, cooldownTimers,
                 sent, handed, nextN, lastCall, injected, installs,
                 domTimers, crashTimeout, checkLog, xhrs, fetches, now, worker>>

\* the browser dispatches the next message the content script posted: to the
\* listeners of the main world and to the content script's own listener
DispatchToPage ==
  /\ bridge.toPageDispatched < Len(bridge.toPage)
  /\ Becomes(mainWorldOnMessage(Cur, bridge.toPage[bridge.toPageDispatched + 1]))
  /\ bridge' = onWindowMessage([bridge EXCEPT !.toPageDispatched = @ + 1],
                               bridge.toPage[bridge.toPageDispatched + 1], now)
  /\ UNCHANGED <<xhrs, fetches, now, worker>>

\* the URL of the next network call of the page: every call has its own
RECURSIVE SumOpens(_)
SumOpens(xs) == IF Len(xs) = 0 THEN 0 ELSE Head(xs).opens + SumOpens(Tail(xs))

CallsStarted == Len(fetches) + SumOpens(xhrs)
NextUrl == "/api/" \o ToString(CallsStarted + 1)

\* new XMLHttpRequest()
XhrNew ==
  /\ xhrs' = Append(xhrs, NewXhr)
  /\ UNCHANGED <<localErrors, apiBuffer, pendingAfterError, lastErrorTimestamp,
                 recentCriticalErrors, crashTriggered, lastDOMCrashReason, cooldownTimers,
                 sent, handed, nextN, lastCall, injected, installs,
                 domTimers, crashTimeout, checkLog, fetches, now, bridge, worker>>

\* xhr.open(method, url) on an object with no request in flight
XhrOpen(x) ==
  /\ ~xhrs[x].inflight
  /\ xhrs' = [xhrs EXCEPT ![x].method = "GET", ![x].url = NextUrl, ![x].opens = @ + 1]
  /\ UNCHANGED <<localErrors, apiBuffer, pendingAfterError, lastErrorTimestamp,
                 recentCriticalErrors, crashTriggered, lastDOMCrashReason, cooldownTimers,
                 sent, handed, nextN, lastCall, injected, installs,
                 domTimers, crashTimeout, checkLog, fetches, now, bridge, worker>>

\* xhr.send(body) on an opened object: three more listeners, then the real send
XhrSend(x, body) ==
  /\ ~xhrs[x].inflight
  /\ xhrs[x].opens > xhrs[x].sends
  /\ xhrs' = [xhrs EXCEPT ![x].sends = @ + 1, ![x].inflight = TRUE,
                          ![x].body = xhrRequestBody(body)]
  /\ UNCHANGED <<localErrors, apiBuffer, pendingAfterError, lastErrorTimestamp,
                 recentCriticalErrors, crashTriggered, lastDOMCrashReason, cooldownTimers,
                 sent, handed, nextN, lastCall, injected, installs,
                 domTimers, crashTimeout, checkLog, fetches, now, bridge, worker>>

\* the request of x ends and the browser fires its events
XhrSettle(x, outcome, status, headers, text) ==
  /\ xhrs[x].inflight
  /\ xhrs' = [xhrs EXCEPT ![x].inflight = FALSE,
                          ![x].headers = IF outcome = "load" THEN headers ELSE <<>>,
                          ![x].responseText = IF outcome = "load" THEN text ELSE ""]
  /\ Becomes(xhrSettle(Cur, xhrs'[x], outcome, status, headers))
  /\ UNCHANGED <<fetches, now, bridge, worker>>

\* window.fetch(input, init), up to `await _fetch(input, init)`
FetchCall(body) ==
  /\ fetches' = Append(fetches, [method |-> "GET", url |-> NextUrl, status |-> 0,
                                 headers |-> <<>>,
                                 requestBody |-> fetchRequestBody(body),
                                 responseText |-> "", settled |-> 0,
                                 pc |-> "awaitFetch", result |-> "pending"])
  /\ UNCHANGED <<localErrors, apiBuffer, pendingAfterError, lastErrorTimestamp,
                 recentCriticalErrors, crashTriggered, lastDOMCrashReason, cooldownTimers,
                 sent, handed, nextN, lastCall, injected, installs,
                 domTimers, crashTimeout, checkLog, xhrs, now, bridge, worker>>

\* the place of the next settlement among those of the underlying fetches: the
\* calls past `await _fetch(input, init)`, and one
NextSettled == Len(SelectSeq(fetches, LAMBDA call : call.pc # "awaitFetch")) + 1

\* _fetch resolves with a response: on to `await clone.text()`
FetchResolve(c, status, headers, text) ==
  /\ fetches[c].pc = "awaitFetch"
  /\ fetches' = [fetches EXCEPT ![c].pc = "awaitBody", ![c].status = status,
                                ![c].headers = headers, ![c].responseText = text,
                                ![c].settled = NextSettled]
  /\ UNCHANGED <<localErrors, apiBuffer, pendingAfterError, lastErrorTimestamp,
                 recentCriticalErrors, crashTriggered, lastDOMCrashReason, cooldownTimers,
                 sent, handed, nextN, lastCall, injected, installs,
                 domTimers, crashTimeout, checkLog, xhrs, now, bridge, worker>>

\* clone.text() settles (a failure is swallowed): record, store, return response
FetchBodyRead(c) ==
  /\ fetches[c].pc = "awaitBody"
  /\ Becomes(fetchOnResponse(Cur, fetches[c]))
  /\ fetches' = [fetches EXCEPT ![c].pc = "done", ![c].result = "response"]
  /\ UNCHANGED <<xhrs, now, bridge, worker>>

\* _fetch rejects: record, store, rethrow
FetchReject(c) ==
  /\ fetches[c].pc = "awaitFetch"
  /\ Becomes(fetchOnReject(Cur, fetches[c]))
  /\ fetches' = [fetches EXCEPT ![c].pc = "done", ![c].result = "exception",
                                ![c].settled = NextSettled]
  /\ UNCHANGED <<xhrs, now, bridge, worker>>

\* a fetch call whose three steps run with nothing in between
FetchRoundTrip(status) ==
  LET call == [method |-> "GET", url |-> NextUrl, status |-> status, headers |-> <<>>,
               requestBody |-> "", responseText |-> "", settled |-> NextSettled,
               pc |-> "done", result |-> "response"]
  IN  /\ Becomes(fetchOnResponse(Cur, call))
      /\ fetches' = Append(fetches, call)
      /\ UNCHANGED <<xhrs, now, bridge, worker>>

TickMs == 5000

\* time passes
Tick ==
  /\ now' = now + TickMs
  /\ UNCHANGED <<localErrors, apiBuffer, pendingAfterError, lastErrorTimestamp,
                 recentCriticalErrors, crashTriggered, lastDOMCrashReason, cooldownTimers,
                 sent, handed, nextN, lastCall, injected, installs,
                 domTimers, crashTimeout, checkLog, xhrs, fetches, bridge, worker>>

\* a longer time passes
Advance(ms) ==
  /\ now' = now + ms
  /\ UNCHANGED <<localErrors, apiBuffer, pendingAfterError, lastErrorTimestamp,
                 recentCriticalErrors, crashTriggered, lastDOMCrashReason, cooldownTimers,
                 sent, handed, nextN, lastCall, injected, installs,
                 domTimers, crashTimeout, checkLog, xhrs, fetches, bridge, worker>>

\* Time passes while a timer waits for it: up to the moment the next timer is due,
\* in steps of half the debounce delay while a debounce timer is pending.
MonitorTick ==
  /\ domTimers # <<>>
  /\ domTimers[NextTimer(Cur)].due > now
  /\ Advance(IF domTimers[NextTimer(Cur)].due - now > DebounceMs \div 2
                /\ \E i \in 1..Len(domTimers) : domTimers[i].kind = "debounce"
              THEN DebounceMs \div 2
              ELSE domTimers[NextTimer(Cur)].due - now)

\* ------------------------------------------------------------------------
\* Inputs
\* ------------------------------------------------------------------------
ErrorEvent(ref, msg, file, line) ==
  [error |-> ref, message |-> msg, filename |-> file, lineno |-> line, colno |-> 0]

\* documents: no crash UI; an error page; a hidden crash element and a visible
\* error boundary; an error page with too little text
DomClean == {}
DomErrorPage ==
  {[sel |-> 1, visible |-> TRUE, text |-> " Something went wrong ", html |-> "<div>"]}
DomBoundary ==
  {[sel |-> 3, visible |-> FALSE, text |-> "App crashed", html |-> "<div>"],
   [sel |-> 6, visible |-> TRUE, text |-> "Please reload", html |-> "<p>"]}
DomShortText ==
  {[sel |-> 1, visible |-> TRUE, text |-> "Oops", html |-> "<div>"]}

\* ------------------------------------------------------------------------
\* SpecCrash: captured errors, DOM checks and the cooldown timer, interleaved
\* ------------------------------------------------------------------------
MaxCrashRecords == 3
MaxCrashChecks == 1

\* the clock stops once one cooldown has passed
HorizonMs == CooldownMs

DomChecksSent == Len(SelectSeq(sent, LAMBDA m : m.type = "crash_detected"
                                               /\ m.data.detectionMethod = "dom_based"))

NextCrash ==
  \/ \E args \in {<<6>>} : nextN <= MaxCrashRecords /\ ConsoleError(args)
  \/ \E e \in {ErrorEvent(6, "Uncaught ReferenceError: foo is not defined", "app.js", 10)} :
       nextN <= MaxCrashRecords /\ WindowError(e)
  \/ \E r \in {7} : nextN <= MaxCrashRecords /\ UnhandledRejection(r)
  \/ \E dom \in {DomShortText, DomErrorPage, DomBoundary} :
       DomChecksSent < MaxCrashChecks /\ CheckForDOMCrash(dom)
  \/ now < HorizonMs /\ Tick
  \/ CooldownFire

SpecCrash == Init /\ [][NextCrash]_vars

\* ------------------------------------------------------------------------
\* Crash events and the cooldown
\* ------------------------------------------------------------------------
CrashEvents == SelectSeq(sent, LAMBDA m : m.type = "crash_detected")

ErrorCrashEvents ==
  SelectSeq(sent, LAMBDA m : m.type = "crash_detected"
                             /\ m.data.detectionMethod = "error_based")

\* the records of errorType ReferenceError posted so far
ReferenceErrorsPosted ==
  SelectSeq(sent, LAMBDA m : m.type \in {"console_error", "page_error", "promise_rejection"}
                             /\ m.data.errorType = "ReferenceError")

\* C1: any two crash_detected events, error_based or dom_based, lie at least one
\* cooldown (10 s) apart: no 10-second window holds two of them.
C1_OneCrashPerWindow ==
  \A i, j \in 1..Len(CrashEvents) :
    i < j => CrashEvents[j].data.timestamp - CrashEvents[i].data.timestamp >= CooldownMs

\* this step captures a record of errorType ReferenceError
ReferenceErrorArrives ==
  /\ Len(sent') > Len(sent)
  /\ sent'[Len(sent) + 1].type \in {"console_error", "page_error", "promise_rejection"}
  /\ sent'[Len(sent) + 1].data.errorType = "ReferenceError"

\* C2: while the cooldown timer of an error_based emission is pending, no step emits
\* an error_based crash event; with no timer pending (none set yet, or the last one
\* has fired), a ReferenceError that arrives emits exactly one.
C2_CooldownSuppressesThenRearms ==
  /\ [][cooldownTimers # <<>> => Len(ErrorCrashEvents') = Len(ErrorCrashEvents)]_vars
  /\ [][(cooldownTimers = <<>> /\ ReferenceErrorArrives)
          => Len(ErrorCrashEvents') = Len(ErrorCrashEvents) + 1]_vars

\* one ReferenceError emitted, one was suppressed during the cooldown, and one
\* after the timer fired emitted again
C2_Witness ==
  /\ Len(ReferenceErrorsPosted) = 3
  /\ Len(ErrorCrashEvents) = 2

\* ------------------------------------------------------------------------
\* SpecTrigger: records of every trigger class arrive at the crash detector
\* ------------------------------------------------------------------------
MaxTriggerRecords == 3

\* a plain message, a ReferenceError, a TypeError, a TypeError with a
\* componentStack, a message that contains "is not defined"
TriggerArgs == {<<4>>, <<6>>, <<7>>, <<16>>, <<17>>}

NextTrigger ==
  \/ \E args \in TriggerArgs : nextN <= MaxTriggerRecords /\ ConsoleError(args)
  \/ now < HorizonMs /\ Tick
  \/ CooldownFire

SpecTrigger == Init /\ [][NextTrigger]_vars

\* the record this step hands to checkForErrorBasedCrash is critical
CriticalRecordArrives ==
  /\ Len(sent') > Len(sent)
  /\ sent'[Len(sent) + 1].type \in {"console_error", "page_error", "promise_rejection"}
  /\ sent'[Len(sent) + 1].data.type # "console.assert"
  /\ isCriticalError(sent'[Len(sent) + 1].data.errorType, sent'[Len(sent) + 1].data.message)

\* C13: when a critical record arrives while the latch is clear, the step emits an
\* error_based crash event exactly if the record is a ReferenceError, or its message
\* contains "is not defined", or it has a componentStack, or recentCriticalErrors,
\* the record included, has at least 3 entries.
C13_TriggerCondition ==
  [][(CriticalRecordArrives /\ ~crashTriggered) =>
       LET entry == sent'[Len(sent) + 1].data IN
       (Len(ErrorCrashEvents') = Len(ErrorCrashEvents) + 1)
         <=> \/ entry.errorType = "ReferenceError"
             \/ Includes(entry.message, "is not defined")
             \/ entry.componentStack # ""
             \/ Len(recentCriticalErrors') >= 3]_vars

\* a third plain TypeError within the window has triggered by volume, the first
\* two having emitted nothing
C13_Witness ==
  /\ Len(ErrorCrashEvents) = 1
  /\ ErrorCrashEvents[1].data.primaryError.type = "TypeError"
  /\ ErrorCrashEvents[1].data.primaryError.componentStack = ""
  /\ Len(ErrorCrashEvents[1].data.recentCriticalErrors) = 3

\* ------------------------------------------------------------------------
\* SpecBoundary: what React error boundaries log arrives at the crash detector:
\* the info object of a boundary, a TypeError that carries a componentStack, and
\* a plain message
\* ------------------------------------------------------------------------
MaxBoundaryRecords == 3

NextBoundary ==
  \/ \E args \in {<<4>>, <<9>>, <<16>>} : nextN <= MaxBoundaryRecords /\ ConsoleError(args)
  \/ nextN <= MaxBoundaryRecords /\ UnhandledRejection(9)
  \/ now < HorizonMs /\ Tick
  \/ CooldownFire

SpecBoundary == Init /\ [][NextBoundary]_vars

\* the record this step hands to checkForErrorBasedCrash has a componentStack
ComponentStackRecordArrives ==
  /\ Len(sent') > Len(sent)
  /\ sent'[Len(sent) + 1].type \in {"console_error", "page_error", "promise_rejection"}
  /\ sent'[Len(sent) + 1].data.type # "console.assert"
  /\ sent'[Len(sent) + 1].data.componentStack # ""

\* C28: a record with a componentStack that arrives while the latch is clear
\* makes the step emit an error_based crash event, whatever its errorType and
\* message are.
C28_ComponentStackTriggers ==
  [][(ComponentStackRecordArrives /\ ~crashTriggered) =>
       Len(ErrorCrashEvents') = Len(ErrorCrashEvents) + 1]_vars

\* the same for the records with a componentStack that are critical by their type
\* or message
ComponentStackTriggersWhenCritical ==
  [][(/\ ComponentStackRecordArrives
      /\ ~crashTriggered
      /\ isCriticalError(sent'[Len(sent) + 1].data.errorType,
                         sent'[Len(sent) + 1].data.message)) =>
       Len(ErrorCrashEvents') = Len(ErrorCrashEvents) + 1]_vars

\* ------------------------------------------------------------------------
\* SpecKinds: records of the five kinds, critical and not, with the clock and the
\* cooldown timer at rest
\* ------------------------------------------------------------------------
MaxKindRecords == 3

NextKinds ==
  \/ \E args \in {<<4>>, <<7>>} : nextN <= MaxKindRecords /\ ConsoleError(args)
  \/ \E args \in {<<4>>, <<17>>} : nextN <= MaxKindRecords /\ ConsoleWarn(args)
  \/ \E args \in {<<4>>, <<17>>} : nextN <= MaxKindRecords /\ ConsoleAssert(FALSE, args)
  \/ nextN <= MaxKindRecords
       /\ WindowError(ErrorEvent(7, "Uncaught TypeError: x.map is not a function", "app.js", 3))
  \/ \E reason \in {4, 7} : nextN <= MaxKindRecords /\ UnhandledRejection(reason)

SpecKinds == Init /\ [][NextKinds]_vars

\* the error records posted so far, of every kind
ErrorRecordsPosted ==
  SelectSeq(sent, LAMBDA m : m.type \in {"console_error", "console_warn", "page_error",
                                         "promise_rejection"})

\* C14: every error record the hooks have made, of whichever kind, that
\* isCriticalError classifies as critical has reached the crash detector: with the
\* clock and the timer at rest it is in recentCriticalErrors.
C14_EveryKindReachesDetector ==
  \A i \in 1..Len(ErrorRecordsPosted) :
    LET entry == ErrorRecordsPosted[i].data IN
    isCriticalError(entry.errorType, entry.message) =>
      \E j \in 1..Len(recentCriticalErrors) : recentCriticalErrors[j].n = entry.n

\* the message at place k of sent is an error_based crash event
IsErrorCrash(k) ==
  /\ sent[k].type = "crash_detected"
  /\ sent[k].data.detectionMethod = "error_based"

HasN(records, n) == \E i \in 1..Len(records) : records[i].n = n

\* the record posted just before place k is the one that the bundle at place k
\* names as its primary error, it is the last of the bundle's critical errors, and
\* it is among the bundle's console or page errors
TriggerStoredBefore(k) ==
  /\ k > 1
  /\ sent[k - 1].type \in {"console_error", "page_error", "promise_rejection"}
  /\ sent[k].data.primaryError.type = sent[k - 1].data.errorType
  /\ sent[k].data.primaryError.message = sent[k - 1].data.message
  /\ sent[k].data.recentCriticalErrors # <<>>
  /\ sent[k].data.recentCriticalErrors[Len(sent[k].data.recentCriticalErrors)].n
       = sent[k - 1].data.n
  /\ IF sent[k - 1].type = "console_error"
       THEN HasN(sent[k].data.recentConsoleErrors, sent[k - 1].data.n)
       ELSE HasN(sent[k].data.recentPageErrors, sent[k - 1].data.n)

\* C36: for every error_based crash event the record that triggered it was stored
\* and posted before the snapshot was taken: its own console_error, page_error or
\* promise_rejection event comes just before the crash event, it is the last entry
\* of the bundle's recentCriticalErrors, and it is in the bundle's
\* recentConsoleErrors or recentPageErrors.
C36_TriggerInSnapshot ==
  \A k \in 1..Len(sent) : IsErrorCrash(k) => TriggerStoredBefore(k)

\* an uncaught error has triggered a crash after two other records: its page_error
\* event is the third message and the crash event the fourth
C36_Witness ==
  /\ Len(sent) = 4
  /\ sent[3].type = "page_error"
  /\ IsErrorCrash(4)
  /\ TriggerStoredBefore(4)

\* ------------------------------------------------------------------------
\* SpecAging: critical records that trigger by volume only, spread over more
\* than one 60-second window
\* ------------------------------------------------------------------------
MaxAgingRecords == 4
AgeStepMs == 30000

\* the clock stops after two windows
AgingHorizonMs == 2 * CriticalWindowMs

NextAging ==
  \/ nextN <= MaxAgingRecords /\ ConsoleError(<<7>>)
  \/ nextN <= MaxAgingRecords
       /\ WindowError(ErrorEvent(7, "Uncaught TypeError: x.map is not a function", "app.js", 3))
  \/ nextN <= MaxAgingRecords /\ UnhandledRejection(7)
  \/ now < AgingHorizonMs /\ Advance(AgeStepMs)
  \/ CooldownFire

SpecAging == Init /\ [][NextAging]_vars

\* the crash events that no ReferenceError, no "is not defined" message and no
\* componentStack explains: those triggered by volume
VolumeCrashEvents ==
  SelectSeq(ErrorCrashEvents, LAMBDA m :
    /\ m.data.primaryError.type # "ReferenceError"
    /\ ~Includes(m.data.primaryError.message, "is not defined")
    /\ m.data.primaryError.componentStack = "")

\* C15: recentCriticalErrors, as the last append left it, holds only critical
\* records captured less than 60 seconds before that append; and a crash event
\* triggered by volume carries at least 3 critical records that all lie within
\* the 60 seconds before it.
C15_SixtySecondWindow ==
  /\ \A j \in 1..Len(recentCriticalErrors) :
       /\ isCriticalError(recentCriticalErrors[j].errorType, recentCriticalErrors[j].message)
       /\ recentCriticalErrors[j].capturedAt
            > recentCriticalErrors[Len(recentCriticalErrors)].capturedAt - CriticalWindowMs
  /\ \A i \in 1..Len(VolumeCrashEvents) :
       LET data == VolumeCrashEvents[i].data IN
       /\ Len(data.recentCriticalErrors) >= 3
       /\ \A k \in 1..Len(data.recentCriticalErrors) :
            /\ data.recentCriticalErrors[k].capturedAt > data.timestamp - CriticalWindowMs
            /\ data.recentCriticalErrors[k].capturedAt <= data.timestamp

\* three critical records were captured more than a window apart: the old ones
\* were pruned and nothing triggered
C15_Witness ==
  /\ nextN = 4
  /\ ErrorCrashEvents = <<>>
  /\ Len(recentCriticalErrors) = 1
  /\ recentCriticalErrors[1].n = 3

\* ------------------------------------------------------------------------
\* SpecRelease: the page stays open, so the clock runs on while a cooldown timer
\* is pending and a timer that is due runs its callback
\* ------------------------------------------------------------------------
MaxReleaseRecords == 3

\* time passes while a timer waits for it
TimerTick ==
  /\ cooldownTimers # <<>>
  /\ Head(cooldownTimers) > now
  /\ Tick

NextRelease ==
  \/ \E args \in {<<4>>, <<6>>, <<7>>} : nextN <= MaxReleaseRecords /\ ConsoleError(args)
  \/ nextN <= MaxReleaseRecords /\ UnhandledRejection(7)
  \/ TimerTick
  \/ CooldownFire

SpecRelease ==
  Init /\ [][NextRelease]_vars /\ WF_vars(TimerTick) /\ WF_vars(CooldownFire)

\* C16: whenever the latch crashTriggered is set, the cooldown callback eventually
\* runs and leaves crashTriggered false and recentCriticalErrors empty, whatever
\* was captured during the cooldown.
C16_LatchReleased ==
  crashTriggered ~> (~crashTriggered /\ recentCriticalErrors = <<>>)

\* a crash latched, two more critical records came during the cooldown, and the
\* callback has released the latch and emptied the list
C16_Witness ==
  /\ Len(ErrorCrashEvents) = 1
  /\ nextN = 4
  /\ ~crashTriggered
  /\ recentCriticalErrors = <<>>
  /\ cooldownTimers = <<>>

\* C35: crashTriggered is true exactly when one cooldown timer is pending: never
\* are two cooldown timers pending, and a cooldown timer runs its callback only
\* while the latch is set.
C35_LatchIffTimer ==
  /\ [](Len(cooldownTimers) <= 1)
  /\ [](crashTriggered <=> Len(cooldownTimers) = 1)
  /\ [][CooldownFire => (crashTriggered /\ ~crashTriggered')]_vars

\* a first crash latched and was released by its timer, and a second crash has
\* latched with a timer of its own
C35_Witness ==
  /\ Len(ErrorCrashEvents) = 2
  /\ crashTriggered
  /\ Len(cooldownTimers) = 1
  /\ cooldownTimers[1] > CooldownMs

\* ------------------------------------------------------------------------
\* SpecDom: DOM checks on changing documents around one error-based crash
\* ------------------------------------------------------------------------
MaxDomRecords == 1
MaxDomEvents == 2

NextDom ==
  \/ \E dom \in {DomClean, DomErrorPage, DomBoundary} :
       DomChecksSent < MaxDomEvents /\ CheckForDOMCrash(dom)
  \/ nextN <= MaxDomRecords /\ ConsoleError(<<6>>)
  \/ now < HorizonMs /\ Tick
  \/ CooldownFire

SpecDom == Init /\ [][NextDom]_vars

DomCrashEvents ==
  SelectSeq(sent, LAMBDA m : m.type = "crash_detected"
                             /\ m.data.detectionMethod = "dom_based")

\* the dom_based events differ in reason from one emission to the next
DomReasonsAlternate ==
  \A i \in 1..(Len(DomCrashEvents) - 1) :
    DomCrashEvents[i + 1].data.reason # DomCrashEvents[i].data.reason

\* no dom_based event was posted during the cooldown of an error_based one
DomNeverWhileLatched ==
  \A i, j \in 1..Len(sent) :
    (/\ j < i
     /\ sent[i].type = "crash_detected" /\ sent[i].data.detectionMethod = "dom_based"
     /\ sent[j].type = "crash_detected" /\ sent[j].data.detectionMethod = "error_based")
      => sent[j].data.timestamp + CooldownMs <= sent[i].data.timestamp

\* C17: a dom_based crash event has a reason other than that of the dom_based
\* event before it, and none is emitted while the error-based latch is set.
C17_DomDedup == DomReasonsAlternate /\ DomNeverWhileLatched

\* this step posts a dom_based crash event
DomEventPosted ==
  /\ Len(sent') = Len(sent) + 1
  /\ sent'[Len(sent')].type = "crash_detected"
  /\ sent'[Len(sent')].data.detectionMethod = "dom_based"

\* wherever the latch is set, a check that detects a new reason posts nothing and
\* records the reason, and a check of the same document once the latch is
\* cleared posts nothing either
SuppressedIsRecorded ==
  \A dom \in {DomClean, DomErrorPage, DomBoundary} :
    (/\ crashTriggered
     /\ detectDOMCrash(dom).detected
     /\ detectDOMCrash(dom).reason # lastDOMCrashReason) =>
      /\ checkForDOMCrash(Cur, dom).sent = sent
      /\ checkForDOMCrash(Cur, dom).lastDOMCrashReason = detectDOMCrash(dom).reason
      /\ checkForDOMCrash(
           [checkForDOMCrash(Cur, dom) EXCEPT !.crashTriggered = FALSE], dom).sent = sent

\* a dom_based event is posted only for a reason other than the recorded one, and
\* a check that detects the recorded reason posts nothing and keeps it recorded
RecordedIsNotPosted ==
  /\ [][DomEventPosted =>
          /\ sent'[Len(sent')].data.reason # lastDOMCrashReason
          /\ sent'[Len(sent')].data.reason = lastDOMCrashReason']_vars
  /\ [][\A dom \in {DomClean, DomErrorPage, DomBoundary} :
          (/\ CheckForDOMCrash(dom)
           /\ detectDOMCrash(dom).detected
           /\ detectDOMCrash(dom).reason = lastDOMCrashReason) =>
            UNCHANGED <<sent, lastDOMCrashReason>>]_vars

\* the recorded reason changes only at a check that detects another reason
RecordedUntilAnother ==
  [][lastDOMCrashReason' # lastDOMCrashReason =>
       \E dom \in {DomErrorPage, DomBoundary} :
         /\ CheckForDOMCrash(dom)
         /\ lastDOMCrashReason' = detectDOMCrash(dom).reason]_vars

\* C38: a DOM crash detected while the error-based latch is set is suppressed
\* but recorded as the last seen reason; after the latch clears no dom_based
\* event is posted for that reason for as long as the same reason keeps being
\* detected, since an event is posted only for a reason other than the recorded
\* one and the recorded reason changes only when another reason is detected.
C38_SuppressedReasonStaysHidden ==
  []SuppressedIsRecorded /\ RecordedIsNotPosted /\ RecordedUntilAnother

\* the latch was set and has cleared, the reason recorded meanwhile is still the
\* one of the document, and no dom_based event was ever posted
C38_Witness ==
  /\ Len(ErrorCrashEvents) = 1
  /\ ~crashTriggered
  /\ cooldownTimers = <<>>
  /\ lastDOMCrashReason = detectDOMCrash(DomErrorPage).reason
  /\ DomChecksSent = 0

\* ------------------------------------------------------------------------
\* SpecWindow: network records arrive at the sliding window one after another
\* ------------------------------------------------------------------------
MaxWindowCalls == 8

NextWindow ==
  \E status \in {200, 500} : Len(handed) < MaxWindowCalls /\ FetchRoundTrip(status)

SpecWindow == Init /\ [][NextWindow]_vars

\* the arrivals so far begin: 3 successful calls, 1 failing call, 3 successful calls
ThreeFailThree ==
  /\ Len(handed) >= 7
  /\ \A i \in 1..7 : handed[i].isError = (i = 4)

\* C3: after 3 successes, 1 failure and 3 successes from the empty state the
\* persisted requests are exactly these 7 in arrival order; an 8th, successful,
\* call goes to the temporary buffer and is not persisted.
C3_SlidingWindowScenario ==
  /\ (ThreeFailThree /\ Len(handed) = 7) =>
       /\ localErrors.apiRequests = handed
       /\ apiBuffer = <<>>
  /\ (ThreeFailThree /\ Len(handed) = 8 /\ ~handed[8].isError) =>
       /\ localErrors.apiRequests = SubSeq(handed, 1, 7)
       /\ apiBuffer = <<handed[8]>>

C3_Witness ==
  /\ ThreeFailThree
  /\ Len(handed) = 8
  /\ ~handed[8].isError
  /\ Len(localErrors.apiRequests) = 7

\* this step hands a failing record to storeApiRequest
FailingRecordArrives ==
  /\ Len(handed') = Len(handed) + 1
  /\ handed'[Len(handed')].isError

LastFailure ==
  LET failures == {i \in 1..Len(handed) : handed[i].isError} IN
  IF failures = {} THEN 0 ELSE CHOOSE i \in failures : \A j \in failures : j <= i

\* the records that arrived in normal mode since the last failure: all of them
\* when nothing has failed yet, else those after the after-window of the failure
NormalModeArrivals ==
  LET from == IF LastFailure = 0 THEN 1 ELSE LastFailure + 3 + 1 IN
  IF from > Len(handed) THEN <<>> ELSE SubSeq(handed, from, Len(handed))

SuccessArrives ==
  /\ Len(handed') = Len(handed) + 1
  /\ ~handed'[Len(handed')].isError

IsIn(entry, records) == \E i \in 1..Len(records) : records[i] = entry

\* C34: while pendingAfterError > 0 the buffer apiBuffer is empty, and
\* pendingAfterError stays within 0..3; a successful record that arrives is stored
\* as an after-record exactly when pendingAfterError > 0 and is buffered otherwise,
\* never both.
C34_AfterModeBufferEmpty ==
  /\ [](/\ pendingAfterError \in 0..3
        /\ pendingAfterError > 0 => apiBuffer = <<>>)
  /\ [][SuccessArrives =>
          /\ IsIn(handed'[Len(handed')], localErrors'.apiRequests)
               <=> pendingAfterError > 0
          /\ IsIn(handed'[Len(handed')], apiBuffer') <=> pendingAfterError = 0]_vars

\* a successful call, a failing call and a successful call: the last record was
\* stored as an after-record, two more are awaited and the buffer is empty
C34_Witness ==
  /\ Len(handed) = 3
  /\ ~handed[1].isError
  /\ handed[2].isError
  /\ ~handed[3].isError
  /\ pendingAfterError = 2
  /\ apiBuffer = <<>>
  /\ IsIn(handed[3], localErrors.apiRequests)

\* the place in handed of the record of the call with this URL, 0 when it has none
PlaceOf(url) ==
  IF \E i \in 1..Len(handed) : handed[i].url = url
    THEN CHOOSE i \in 1..Len(handed) : handed[i].url = url
    ELSE 0

\* the api_request events posted so far, in the order of posting
ApiRequestsPosted == SelectSeq(sent, LAMBDA m : m.type = "api_request")

\* the position in `handed` of the last failing record before place i, 0 when none
LastFailureBefore(i) ==
  LET failures == {j \in 1..(i - 1) : handed[j].isError} IN
  IF failures = {} THEN 0 ELSE CHOOSE j \in failures : \A l \in failures : l <= j

\* the record at place i of `handed` arrived in normal mode and was buffered
ArrivedInNormalMode(i) ==
  /\ ~handed[i].isError
  /\ (LastFailureBefore(i) = 0 \/ i - LastFailureBefore(i) > API_AFTER_ERROR_COUNT)

\* the record at place i was buffered and API_BUFFER_SIZE more were buffered
\* after it with no failure in between: it was shifted out of the buffer
EvictedFromBuffer(i) ==
  /\ ArrivedInNormalMode(i)
  /\ i + API_BUFFER_SIZE <= Len(handed)
  /\ \A j \in (i + 1)..(i + API_BUFFER_SIZE) : ArrivedInNormalMode(j)

\* the event at place k of `sent` has this type and carries the record `entry`
PostedAt(k, type, entry) ==
  /\ sent[k].type = type
  /\ sent[k].data = [sessionId |-> SESSION_ID, pageUrl |-> LocationHref] @@ entry

\* the api_request events carry arriving records, at strictly increasing places
PostedInArrivalOrder ==
  /\ \A k \in 1..Len(ApiRequestsPosted) :
        LET place == PlaceOf(ApiRequestsPosted[k].data.url) IN
        /\ place > 0
        /\ ApiRequestsPosted[k].data =
             [sessionId |-> SESSION_ID, pageUrl |-> LocationHref] @@ handed[place]
  /\ \A k \in 1..(Len(ApiRequestsPosted) - 1) :
        PlaceOf(ApiRequestsPosted[k].data.url) < PlaceOf(ApiRequestsPosted[k + 1].data.url)

\* every failing record was posted as api_request and, right after, as api_error
FailuresPostedTwice ==
  \A i \in 1..Len(handed) :
    handed[i].isError =>
      \E k \in 1..(Len(sent) - 1) :
        PostedAt(k, "api_request", handed[i]) /\ PostedAt(k + 1, "api_error", handed[i])

\* no event carries a record that was shifted out of the buffer
EvictedNeverPosted ==
  \A i \in 1..Len(handed) :
    EvictedFromBuffer(i) => \A k \in 1..Len(sent) : sent[k].data.url # handed[i].url

\* a failing record posts the buffered records, then itself, and nothing else
FlushPostedBeforeFailure ==
  [][FailingRecordArrives =>
       /\ Len(sent') = Len(sent) + Len(apiBuffer) + 2
       /\ \A j \in 1..Len(apiBuffer) :
            /\ sent'[Len(sent) + j].type = "api_request"
            /\ sent'[Len(sent) + j].data.url = apiBuffer[j].url
       /\ sent'[Len(sent) + Len(apiBuffer) + 1].type = "api_request"
       /\ sent'[Len(sent) + Len(apiBuffer) + 1].data.url = handed'[Len(handed')].url
       /\ sent'[Len(sent) + Len(apiBuffer) + 2].type = "api_error"]_vars

\* C37: the api_request events are an order-preserving subsequence of the
\* arriving records without duplicates; every failing record is posted as
\* api_request and then as api_error; the buffered before-records are posted
\* before the failure that flushes them; a record evicted from the temporary
\* buffer is never posted.
C37_EmittedSubsequence ==
  /\ [](PostedInArrivalOrder /\ FailuresPostedTwice /\ EvictedNeverPosted)
  /\ FlushPostedBeforeFailure

\* five successful calls and a failing one: the first record was evicted, the
\* four buffered ones were posted before the failing record
C37_Witness ==
  /\ Len(handed) = API_BUFFER_SIZE + 2
  /\ \A i \in 1..(API_BUFFER_SIZE + 2) : handed[i].isError = (i = API_BUFFER_SIZE + 2)
  /\ EvictedFromBuffer(1)
  /\ Len(ApiRequestsPosted) = API_BUFFER_SIZE + 1
  /\ \A k \in 1..(API_BUFFER_SIZE + 1) : ApiRequestsPosted[k].data.url = handed[k + 1].url
  /\ sent[Len(sent)].type = "api_error"

\* ------------------------------------------------------------------------
\* SpecNet: the calls of the wrapped XMLHttpRequest and fetch, step by step
\* ------------------------------------------------------------------------
MaxXhrs == 1
MaxNetCalls == 3

Statuses == {200, 304, 500}
XhrOutcomes == {"load", "error", "timeout", "abort"}

NextNet ==
  \/ Len(xhrs) < MaxXhrs /\ XhrNew
  \/ \E x \in 1..Len(xhrs) : CallsStarted < MaxNetCalls /\ XhrOpen(x)
  \/ \E x \in 1..Len(xhrs) : XhrSend(x, BodyNone)
  \/ \E x \in 1..Len(xhrs) : \E outcome \in XhrOutcomes :
       \E status \in (IF outcome = "load" THEN Statuses ELSE {0}) :
         XhrSettle(x, outcome, status, <<>>, "")
  \/ CallsStarted < MaxNetCalls /\ FetchCall(BodyNone)
  \/ \E c \in 1..Len(fetches) : \E status \in Statuses : FetchResolve(c, status, <<>>, "")
  \/ \E c \in 1..Len(fetches) : FetchBodyRead(c)
  \/ \E c \in 1..Len(fetches) : FetchReject(c)

SpecNet == Init /\ [][NextNet]_vars

\* the records handed to storeApiRequest for the call with this URL
RecordsOf(url) == SelectSeq(handed, LAMBDA e : e.url = url)

\* C9: a network call has no record while it is under way and exactly one once it
\* has settled, however it settled, also on an XHR object used for several sends.
C9_OneRecordPerCall ==
  /\ \A c \in 1..Len(fetches) :
       Len(RecordsOf(fetches[c].url)) = (IF fetches[c].pc = "done" THEN 1 ELSE 0)
  /\ \A x \in 1..Len(xhrs) :
       xhrs[x].sends > 0 /\ xhrs[x].sends = xhrs[x].opens =>
         Len(RecordsOf(xhrs[x].url)) = (IF xhrs[x].inflight THEN 0 ELSE 1)

\* C10: every network record has isError exactly when status is 0 or >= 400.
C10_IsErrorIffStatus ==
  \A i \in 1..Len(handed) :
    handed[i].isError <=> (handed[i].status = 0 \/ handed[i].status >= 400)

\* C11: once the underlying fetch of a call has settled, the wrapper has settled to
\* the caller (with that response or that exception) and the record of the call has
\* been handed to storeApiRequest; it waits for no further event such as the read
\* of the response body.
C11_FetchSettlesWithUnderlying ==
  \A c \in 1..Len(fetches) :
    fetches[c].pc # "awaitFetch" =>
      /\ fetches[c].result # "pending"
      /\ Len(RecordsOf(fetches[c].url)) = 1

\* C31: network records are stored in the order in which the underlying requests
\* of their calls settle: of two fetch calls, once the record of the one whose
\* underlying fetch settled second is stored, the record of the one whose
\* underlying fetch settled first is stored before it.
C31_StoredInSettleOrder ==
  \A c1, c2 \in 1..Len(fetches) :
    (/\ fetches[c1].settled > 0
     /\ fetches[c1].settled < fetches[c2].settled
     /\ PlaceOf(fetches[c2].url) > 0) =>
      (/\ PlaceOf(fetches[c1].url) > 0
       /\ PlaceOf(fetches[c1].url) < PlaceOf(fetches[c2].url))

\* the records are stored in the order in which the wrapped calls end
StoredInEndOrder ==
  [][\A c \in 1..Len(fetches) :
       (fetches[c].pc # "done" /\ fetches'[c].pc = "done") =>
         (/\ Len(handed') = Len(handed) + 1
          /\ handed'[Len(handed')].url = fetches[c].url)]_vars

\* ------------------------------------------------------------------------
\* SpecIsolate: the wrapped console methods and fetch on well-formed and on
\* malformed arguments
\* ------------------------------------------------------------------------
MaxIsolateRecords == 2
MaxIsolateCalls == 2

NextIsolate ==
  \/ \E args \in {<<4>>, <<6>>, <<15>>, <<6, 15>>} :
       nextN <= MaxIsolateRecords /\ ConsoleError(args)
  \/ \E args \in {<<4>>, <<15>>} :
       nextN <= MaxIsolateRecords /\ ConsoleWarn(args)
  \/ \E condition \in BOOLEAN : \E args \in {<<>>, <<4>>, <<15>>} :
       nextN <= MaxIsolateRecords /\ ConsoleAssert(condition, args)
  \/ CallsStarted < MaxIsolateCalls /\ FetchCall(BodyNone)
  \/ \E c \in 1..Len(fetches) : \E status \in Statuses : FetchResolve(c, status, <<>>, "")
  \/ \E c \in 1..Len(fetches) : FetchBodyRead(c)
  \/ \E c \in 1..Len(fetches) : FetchReject(c)

SpecIsolate == Init /\ [][NextIsolate]_vars

\* C12: no call of a wrapped console method ends in an exception of the agent's
\* own code: each reaches the original method and returns; and a finished fetch
\* call delivers the response exactly when the underlying fetch resolved.
C12_BookkeepingIsolated ==
  /\ lastCall \in {"none", "returned"}
  /\ \A c \in 1..Len(fetches) :
       fetches[c].pc = "done" =>
         (fetches[c].result = "response" <=> fetches[c].status # 0)

\* ------------------------------------------------------------------------
\* SpecOriginal: the three wrapped console methods on every path: noise, a
\* message too short to be a real error, captured errors, assertions that pass
\* and that fail, and an argument that has no conversion to a string
\* ------------------------------------------------------------------------
MaxOriginalRecords == 2

OriginalArgs == {<<3>>, <<4>>, <<5>>, <<6>>, <<15>>}

NextOriginal ==
  \/ \E args \in OriginalArgs : nextN <= MaxOriginalRecords /\ ConsoleError(args)
  \/ \E args \in OriginalArgs : nextN <= MaxOriginalRecords /\ ConsoleWarn(args)
  \/ \E condition \in BOOLEAN : \E args \in OriginalArgs \cup {<<>>} :
       nextN <= MaxOriginalRecords /\ ConsoleAssert(condition, args)

SpecOriginal == Init /\ [][NextOriginal]_vars

\* this step is a call of console.error, console.warn or console.assert with one
\* of the argument lists
ConsoleCalled(argLists) ==
  \/ \E args \in argLists : ConsoleError(args)
  \/ \E args \in argLists : ConsoleWarn(args)
  \/ \E condition \in BOOLEAN : \E args \in argLists : ConsoleAssert(condition, args)

\* C29: every call of the wrapped console.error, console.warn and console.assert
\* reaches the one call of the original method that ends each of its paths, with
\* the arguments it was given.
C29_OriginalAlwaysCalled ==
  [][ConsoleCalled(OriginalArgs \cup {<<>>}) => lastCall' = "returned"]_vars

\* the same for the arguments that the normalizer can convert
OriginalCalledForConvertible ==
  [][ConsoleCalled((OriginalArgs \cup {<<>>}) \ {<<15>>}) => lastCall' = "returned"]_vars

\* ------------------------------------------------------------------------
\* SpecTrace: responses with and without trace headers, over XHR and over fetch
\* ------------------------------------------------------------------------
MaxTraceCalls == 2

\* no header; x-request-id before x-trace-id; x-request-id alone; an empty
\* x-trace-id and a traceparent whose value holds ": "; the last header of the list
TraceHeaderLists ==
  { <<>>,
    << <<"x-request-id", "r-1">>, <<"x-trace-id", "t-1">> >>,
    << <<"content-type", "application/json">>, <<"x-request-id", "r-1">> >>,
    << <<"x-trace-id", "">>, <<"traceparent", "00-ab: cd">> >>,
    << <<"x-cloud-trace-context", "c/1">> >> }

NextTrace ==
  \/ Len(xhrs) < MaxXhrs /\ XhrNew
  \/ \E x \in 1..Len(xhrs) : CallsStarted < MaxTraceCalls /\ XhrOpen(x)
  \/ \E x \in 1..Len(xhrs) : XhrSend(x, BodyNone)
  \/ \E x \in 1..Len(xhrs) : \E headers \in TraceHeaderLists :
       XhrSettle(x, "load", 200, headers, "")
  \/ CallsStarted < MaxTraceCalls /\ FetchCall(BodyNone)
  \/ \E c \in 1..Len(fetches) : \E headers \in TraceHeaderLists :
       FetchResolve(c, 200, headers, "")
  \/ \E c \in 1..Len(fetches) : FetchBodyRead(c)

SpecTrace == Init /\ [][NextTrace]_vars

\* the value a header list gives a name; "" when it has none
HeaderValue(headers, name) ==
  IF \E i \in 1..Len(headers) : headers[i][1] = name
    THEN headers[CHOOSE i \in 1..Len(headers) : headers[i][1] = name][2]
    ELSE ""

\* the record carries the first header of TRACE_ID_HEADERS, in that order, that
\* has a non-empty value in the list, with that value; null (here "") if none has
TraceOf(entry, headers) ==
  IF \A i \in 1..Len(TRACE_ID_HEADERS) : HeaderValue(headers, TRACE_ID_HEADERS[i]) = ""
    THEN entry.traceId = "" /\ entry.traceIdHeader = ""
    ELSE \E i \in 1..Len(TRACE_ID_HEADERS) :
           /\ HeaderValue(headers, TRACE_ID_HEADERS[i]) # ""
           /\ \A j \in 1..(i - 1) : HeaderValue(headers, TRACE_ID_HEADERS[j]) = ""
           /\ entry.traceIdHeader = TRACE_ID_HEADERS[i]
           /\ entry.traceId = HeaderValue(headers, TRACE_ID_HEADERS[i])

\* C18: the record of a completed XHR or fetch call reports the value and the name
\* of the first header of the fixed list, in list order, that has a non-empty value
\* in the response, and null for both when no listed header has one.  (An XHR
\* object is looked at after its first send, whose record is the only one then.)
C18_TraceIdFirstInOrder ==
  /\ \A c \in 1..Len(fetches) :
       \A i \in 1..Len(handed) :
         (handed[i].type = "fetch" /\ handed[i].url = fetches[c].url)
           => TraceOf(handed[i], fetches[c].headers)
  /\ \A x \in 1..Len(xhrs) :
       \A i \in 1..Len(handed) :
         (/\ handed[i].type = "xhr" /\ handed[i].url = xhrs[x].url
          /\ xhrs[x].sends = 1 /\ ~xhrs[x].inflight)
           => TraceOf(handed[i], xhrs[x].headers)

\* an XHR record took x-trace-id though x-request-id came first in the response,
\* a fetch record took traceparent past the empty x-trace-id
C18_Witness ==
  /\ \E i \in 1..Len(handed) :
       /\ handed[i].type = "xhr"
       /\ handed[i].traceIdHeader = "x-trace-id" /\ handed[i].traceId = "t-1"
  /\ \E i \in 1..Len(handed) :
       /\ handed[i].type = "fetch"
       /\ handed[i].traceIdHeader = "traceparent" /\ handed[i].traceId = "00-ab: cd"

\* ------------------------------------------------------------------------
\* SpecCapture: the five hooks on noise and on real errors
\* ------------------------------------------------------------------------
MaxCaptureRecords == 2

NextCapture ==
  \/ \E args \in {<<>>, <<2>>, <<3>>, <<4>>, <<5>>, <<6>>} :
       nextN <= MaxCaptureRecords /\ ConsoleError(args)
  \/ \E args \in {<<2>>, <<4>>, <<14>>} :
       nextN <= MaxCaptureRecords /\ ConsoleWarn(args)
  \/ \E condition \in BOOLEAN : \E args \in {<<>>, <<2>>, <<4>>} :
       nextN <= MaxCaptureRecords /\ ConsoleAssert(condition, args)
  \/ \E e \in {ErrorEvent(8, "Script error.", "", 0),
               ErrorEvent(0, "ResizeObserver loop limit exceeded", "app.js", 1),
               ErrorEvent(7, "Uncaught TypeError: x.map is not a function", "app.js", 3),
               ErrorEvent(3, "", "", 0)} :
       nextN <= MaxCaptureRecords /\ WindowError(e)
  \/ \E reason \in {2, 3, 4, 7, 12} :
       nextN <= MaxCaptureRecords /\ UnhandledRejection(reason)

SpecCapture == Init /\ [][NextCapture]_vars

ErrorRecordEvents == {"console_error", "console_warn", "page_error", "promise_rejection"}

\* C8: no record whose message shouldIgnoreError classifies as noise is in a
\* buffer of localErrors or among the posted error events, whichever hook made it.
C8_NoNoiseRecord ==
  /\ \A i \in 1..Len(localErrors.console) : ~shouldIgnoreError(localErrors.console[i].message)
  /\ \A i \in 1..Len(localErrors.page) : ~shouldIgnoreError(localErrors.page[i].message)
  /\ \A i \in 1..Len(sent) :
       sent[i].type \in ErrorRecordEvents => ~shouldIgnoreError(sent[i].data.message)

\* ------------------------------------------------------------------------
\* SpecFill, SpecConsoleFill: long runs.  A buffer is first filled to FillMargin
\* below its capacity by one input repeated, then every interleaving of
\* MaxFillTail more events is taken.
\* ------------------------------------------------------------------------
FillMargin == 1
MaxFillTail == 5

\* the arrival numbers of a sequence of records
Ns(records) == [i \in 1..Len(records) |-> records[i].n]

FillEvent == ErrorEvent(0, "Uncaught Error: save failed", "app.js", 12)

FillArgs == <<4>>

PagePrefix == PageCap - FillMargin
ApiPrefix == ApiCap - FillMargin

NextFill ==
  \/ nextN <= PagePrefix /\ WindowError(FillEvent)
  \/ nextN > PagePrefix /\ nextN <= PagePrefix + ApiPrefix /\ FetchRoundTrip(500)
  \/ /\ nextN > PagePrefix + ApiPrefix
     /\ nextN <= PagePrefix + ApiPrefix + MaxFillTail
     /\ \/ WindowError(FillEvent)
        \/ UnhandledRejection(10)
        \/ \E status \in {200, 500} : FetchRoundTrip(status)

SpecFill == Init /\ [][NextFill]_vars

\* C5: the persisted request storage never holds more than 100 records.
C5_ApiRequestsCapped == Len(localErrors.apiRequests) <= ApiRequestsCap

\* the page records and the failing network records in the order they were made
PagePosted ==
  SelectSeq(sent, LAMBDA m : m.type \in {"page_error", "promise_rejection"})
FailuresHanded == SelectSeq(handed, LAMBDA e : e.isError)

\* C7: localErrors.page holds the last 50 page records (uncaught errors and
\* rejections) and localErrors.api the last 100 failing network records, in
\* arrival order, and never more.
C7_PageAndApiRings ==
  /\ Len(localErrors.page) <= PageCap
  /\ Ns(localErrors.page) = Last([i \in 1..Len(PagePosted) |-> PagePosted[i].data.n], PageCap)
  /\ Len(localErrors.api) <= ApiCap
  /\ localErrors.api = Last(FailuresHanded, ApiCap)

\* both rings have overflowed
C7_Witness ==
  /\ Len(PagePosted) > PageCap
  /\ Len(FailuresHanded) > ApiCap
  /\ \E i \in 1..Len(localErrors.page) : localErrors.page[i].type = "unhandled_rejection"

ConsolePrefix == ConsoleCap - FillMargin

NextConsoleFill ==
  \/ nextN <= ConsolePrefix /\ ConsoleError(FillArgs)
  \/ /\ nextN > ConsolePrefix
     /\ nextN <= ConsolePrefix + MaxFillTail
     /\ \/ ConsoleError(FillArgs)
        \/ ConsoleWarn(FillArgs)
        \/ ConsoleAssert(FALSE, FillArgs)

SpecConsoleFill == Init /\ [][NextConsoleFill]_vars

ConsolePosted ==
  SelectSeq(sent, LAMBDA m : m.type \in {"console_error", "console_warn"})

\* C6: localErrors.console never holds more than 100 records, and holds the last
\* 100 console records in arrival order once more than 100 were stored.
C6_ConsoleRing ==
  /\ Len(localErrors.console) <= ConsoleCap
  /\ Ns(localErrors.console)
       = Last([i \in 1..Len(ConsolePosted) |-> ConsolePosted[i].data.n], ConsoleCap)

\* ------------------------------------------------------------------------
\* SpecSnapshot: the buffers are filled past the sizes of the crash bundle's
\* slices, then crashes are triggered by errors and by the DOM
\* ------------------------------------------------------------------------
MaxSnapshotTail == 2

SnapshotPagePrefix == 20 + FillMargin
SnapshotApiPrefix == 50 + FillMargin
SnapshotConsolePrefix == 30 + FillMargin
SnapshotPrefix == SnapshotPagePrefix + SnapshotApiPrefix + SnapshotConsolePrefix

NextSnapshot ==
  \/ nextN <= SnapshotPagePrefix /\ WindowError(FillEvent)
  \/ /\ nextN > SnapshotPagePrefix
     /\ nextN <= SnapshotPagePrefix + SnapshotApiPrefix
     /\ FetchRoundTrip(500)
  \/ /\ nextN > SnapshotPagePrefix + SnapshotApiPrefix
     /\ nextN <= SnapshotPrefix
     /\ ConsoleError(FillArgs)
  \/ /\ nextN > SnapshotPrefix
     /\ nextN <= SnapshotPrefix + MaxSnapshotTail
     /\ \/ \E args \in {<<6>>, <<7>>} : ConsoleError(args)
        \/ WindowError(ErrorEvent(6, "Uncaught ReferenceError: foo is not defined",
                                  "app.js", 10))
        \/ FetchRoundTrip(200)
  \/ /\ nextN > SnapshotPrefix
     /\ \E dom \in {DomErrorPage, DomBoundary} :
          DomChecksSent < MaxDomEvents /\ CheckForDOMCrash(dom)

SpecSnapshot == Init /\ [][NextSnapshot]_vars

\* this step posts a crash_detected message (the last message of the step)
CrashEmitted ==
  /\ Len(sent') > Len(sent)
  /\ sent'[Len(sent')].type = "crash_detected"

\* C19: the bundle of a crash event holds the last 30 console errors, 20 page
\* errors, 30 API errors and 50 API requests (and, error-based, the last 10 critical
\* errors) of the buffers as they are when it is triggered, and the emission drains
\* nothing: the buffers keep every record and the sliding window its state.
C19_SnapshotWithoutDraining ==
  [][CrashEmitted =>
       LET data == sent'[Len(sent')].data IN
       /\ data.recentConsoleErrors = Last(localErrors'.console, 30)
       /\ data.recentPageErrors = Last(localErrors'.page, 20)
       /\ data.recentApiErrors = Last(localErrors'.api, 30)
       /\ data.recentApiRequests = Last(localErrors'.apiRequests, 50)
       /\ data.detectionMethod = "error_based"
            => data.recentCriticalErrors = Last(recentCriticalErrors', 10)
       /\ data.detectionMethod = "dom_based" => localErrors' = localErrors
       /\ Len(localErrors'.console) >= Len(localErrors.console)
       /\ Len(localErrors'.page) >= Len(localErrors.page)
       /\ localErrors'.api = localErrors.api
       /\ localErrors'.apiRequests = localErrors.apiRequests
       /\ apiBuffer' = apiBuffer
       /\ pendingAfterError' = pendingAfterError]_vars

\* an error-based and a DOM-based crash were emitted with every slice full and
\* every buffer longer than its slice
C19_Witness ==
  /\ Len(CrashEvents) = 2
  /\ CrashEvents[1].data.detectionMethod # CrashEvents[2].data.detectionMethod
  /\ \A i \in 1..2 :
       /\ Len(CrashEvents[i].data.recentConsoleErrors) = 30
       /\ Len(CrashEvents[i].data.recentPageErrors) = 20
       /\ Len(CrashEvents[i].data.recentApiErrors) = 30
       /\ Len(CrashEvents[i].data.recentApiRequests) = 50
  /\ Len(localErrors.console) > 30
  /\ Len(localErrors.page) > 20
  /\ Len(localErrors.api) > 30
  /\ Len(localErrors.apiRequests) > 50

\* ------------------------------------------------------------------------
\* SpecMirror: the content script receives what the engine posts; the request
\* storage is filled first, every message delivered before the next call
\* ------------------------------------------------------------------------
MaxMirrorTail == 3

MirrorPrefix == ApiRequestsCap - FillMargin

NextMirror ==
  \/ nextN <= MirrorPrefix /\ bridge.delivered = Len(sent) /\ FetchRoundTrip(500)
  \/ /\ nextN > MirrorPrefix
     /\ nextN <= MirrorPrefix + MaxMirrorTail
     /\ \/ \E status \in {200, 500} : FetchRoundTrip(status)
        \/ ConsoleError(FillArgs)
        \/ WindowError(FillEvent)
  \/ Deliver

SpecMirror == Init /\ [][NextMirror]_vars

\* C20: when every posted message has been delivered, the four collections that
\* getErrors returns hold the same records, in the same order, as the engine's
\* buffers localErrors.console, .page, .api and .apiRequests (a record is known by
\* its arrival number).
C20_GetErrorsEqualsBuffers ==
  bridge.delivered = Len(sent) =>
    /\ Ns(getErrors(bridge).data.consoleErrors) = Ns(localErrors.console)
    /\ Ns(getErrors(bridge).data.pageErrors) = Ns(localErrors.page)
    /\ Ns(getErrors(bridge).data.apiErrors) = Ns(localErrors.api)
    /\ Ns(getErrors(bridge).data.apiRequests) = Ns(localErrors.apiRequests)

\* ------------------------------------------------------------------------
\* SpecClear: records are captured and delivered, and the popup clears the errors
\* ------------------------------------------------------------------------
MaxClearRecords == 3

NextClear ==
  \/ \E args \in {<<4>>, <<7>>} : nextN <= MaxClearRecords /\ ConsoleError(args)
  \/ nextN <= MaxClearRecords
       /\ WindowError(ErrorEvent(7, "Uncaught TypeError: x.map is not a function", "app.js", 3))
  \/ nextN <= MaxClearRecords /\ FetchRoundTrip(500)
  \/ Deliver
  \/ ClearErrors

SpecClear == Init /\ [][NextClear]_vars

\* the collections that getErrors returns are empty
GetErrorsEmpty ==
  /\ getErrors(bridge).data.consoleErrors = <<>>
  /\ getErrors(bridge).data.pageErrors = <<>>
  /\ getErrors(bridge).data.apiErrors = <<>>
  /\ getErrors(bridge).data.apiRequests = <<>>
  /\ getErrors(bridge).data.crashes = <<>>

\* the buffers of the capture engine, from which a crash bundle is cut, are empty
EngineBuffersEmpty ==
  /\ localErrors.console = <<>>
  /\ localErrors.page = <<>>
  /\ localErrors.api = <<>>
  /\ localErrors.apiRequests = <<>>
  /\ recentCriticalErrors = <<>>

\* C21: right after a clearErrors command getErrors returns empty collections and
\* all buffers of the capture engine are empty (so that a crash bundle emitted
\* later could hold no record captured before the clear).
C21_ClearEmptiesEverything ==
  [][ClearErrors => (GetErrorsEmpty' /\ EngineBuffersEmpty')]_vars

\* the half that the content script keeps: its own collections are empty
MirrorClearedByCommand == [][ClearErrors => GetErrorsEmpty']_vars

\* ------------------------------------------------------------------------
\* SpecTest: the popup asks for a test error while the page logs errors of its
\* own.  The browser dispatches every posted message in the end.
\* ------------------------------------------------------------------------
MaxTestCommands == 2
MaxTestRecords == 3

NextTest ==
  \/ Len(bridge.toPage) < MaxTestCommands /\ TriggerTestError
  \/ DispatchToPage
  \/ \E args \in {<<4>>, <<6>>, <<7>>} : nextN <= MaxTestRecords /\ ConsoleError(args)
  \/ Deliver

SpecTest ==
  Init /\ [][NextTest]_vars /\ WF_vars(DispatchToPage) /\ WF_vars(Deliver)

\* C22: once a triggerTestError command is handled, the in-page engine captures a
\* synthetic error and emits an event for it: the engine posts one message more
\* than it had posted when the command was handled.
C22_TestErrorReachesDetector ==
  \A k \in 0..(2 * MaxTestRecords) :
    (Len(bridge.toPage) > 0 /\ Len(sent) = k) ~> (Len(sent) > k)

\* ------------------------------------------------------------------------
\* SpecSession: events of every kind are posted, each delivered before the next
\* is captured, the popup clears the errors, and another script of the page posts
\* one message that looks like the engine's, with a session id of its own or with
\* none
\* ------------------------------------------------------------------------
MaxSessionRecords == 2

\* a message of another script: arrival number 0, which no record of the engine has
Forged(id) ==
  [source |-> "L2_AGENT_MAIN_WORLD", type |-> "console_error",
   data |-> [sessionId |-> id, pageUrl |-> LocationHref, message |-> "not ours", n |-> 0]]

\* the positions of the outbox that forward a message of another script
ForgedForwarded ==
  {i \in 1..Len(bridge.outbox) :
     /\ bridge.outbox[i].action = "logError"
     /\ FieldOr(bridge.outbox[i].data, "n", 1) = 0}

NextSession ==
  \/ /\ nextN <= MaxSessionRecords
     /\ bridge.delivered = Len(sent)
     /\ \/ \E args \in {<<4>>, <<6>>} : ConsoleError(args)
        \/ ConsoleWarn(<<4>>)
        \/ UnhandledRejection(7)
        \/ FetchRoundTrip(500)
  \/ DomChecksSent < 1 /\ bridge.delivered = Len(sent) /\ CheckForDOMCrash(DomErrorPage)
  \/ Deliver
  \/ ClearErrors
  \/ \E id \in {"", "forged-id"} :
       ForgedForwarded = {} /\ ForeignMessage(Forged(id))

SpecSession == Init /\ [][NextSession]_vars

\* every posted event carries a session id and a page URL, the session id the
\* same in all
EventsCarrySession ==
  \A i \in 1..Len(sent) :
    /\ sent[i].data.sessionId # ""
    /\ sent[i].data.pageUrl # ""
    /\ sent[i].data.sessionId = sent[1].data.sessionId

\* a step leaves a session id that the content script has stored as it is
StoredSessionKept ==
  bridge.data.sessionId # "" => bridge'.data.sessionId = bridge.data.sessionId

\* C23: every event the engine emits carries sessionId and pageUrl, with one and
\* the same sessionId in all events of the page load, and the session id stored
\* by the content script never changes once it is set.
C23_SessionIdStable == [](EventsCarrySession) /\ [][StoredSessionKept]_vars

\* the content script took the engine's session id over, and later forwarded a
\* message of another script that came with a different one
C23_Witness ==
  /\ bridge.data.sessionId = SESSION_ID
  /\ \E i, j \in 1..Len(bridge.outbox) :
       /\ i < j
       /\ bridge.outbox[i].action = "logError"
       /\ FieldOr(bridge.outbox[i].data, "n", 0) > 0
       /\ j \in ForgedForwarded
       /\ bridge.outbox[j].data.message = "not ours"
  /\ Len(sent) >= 2

\* ------------------------------------------------------------------------
\* SpecBodies: XHR and fetch calls, one after the other, with no body, a
\* FormData, and bodies one character longer than the limit, in both directions
\* ------------------------------------------------------------------------
MaxBodyCalls == 2

\* s repeated n times
RECURSIVE Repeat(_, _)
Repeat(s, n) ==
  IF n = 0 THEN ""
  ELSE IF n % 2 = 0 THEN Repeat(s \o s, n \div 2)
  ELSE s \o Repeat(s \o s, n \div 2)

LongText == Repeat("x", BodyLimit + 1)

RequestBodies == {BodyNone, BodyForm, BodyString(LongText)}
ResponseTexts == {"", LongText}

\* every call started so far has ended
AllCallsEnded ==
  /\ \A x \in 1..Len(xhrs) : ~xhrs[x].inflight /\ xhrs[x].opens = xhrs[x].sends
  /\ \A c \in 1..Len(fetches) : fetches[c].pc = "done"

NextBodies ==
  \/ xhrs = <<>> /\ XhrNew
  \/ \E x \in 1..Len(xhrs) :
       CallsStarted < MaxBodyCalls /\ AllCallsEnded /\ XhrOpen(x)
  \/ \E x \in 1..Len(xhrs) : \E body \in RequestBodies : XhrSend(x, body)
  \/ \E x \in 1..Len(xhrs) : \E text \in ResponseTexts :
       XhrSettle(x, "load", 200, <<>>, text)
  \/ \E x \in 1..Len(xhrs) : XhrSettle(x, "error", 0, <<>>, "")
  \/ \E body \in RequestBodies :
       CallsStarted < MaxBodyCalls /\ AllCallsEnded /\ FetchCall(body)
  \/ \E c \in 1..Len(fetches) : \E text \in ResponseTexts :
       FetchResolve(c, 200, <<>>, text)
  \/ \E c \in 1..Len(fetches) : FetchBodyRead(c)
  \/ \E c \in 1..Len(fetches) : FetchReject(c)

SpecBodies == Init /\ [][NextBodies]_vars

\* C24: in every record the XHR or the fetch wrapper produces, requestBody and
\* responseBody are at most 10,000 characters long, whatever the real body was.
C24_BodiesBounded ==
  \A i \in 1..Len(handed) :
    /\ Len(FieldOr(handed[i], "requestBody", "")) <= 10000
    /\ Len(FieldOr(handed[i], "responseBody", "")) <= 10000

\* an XHR record and a fetch record, each of a call whose body and whose response
\* were longer than the limit
C24_Witness ==
  /\ \E x \in 1..Len(xhrs) : Len(xhrs[x].responseText) > BodyLimit
  /\ \E c \in 1..Len(fetches) : Len(fetches[c].responseText) > BodyLimit
  /\ \E i, j \in 1..Len(handed) :
       /\ handed[i].type = "xhr"
       /\ handed[i].requestBody = Slice0(LongText, BodyLimit)
       /\ handed[i].responseBody = Slice0(LongText, BodyLimit)
       /\ handed[j].type = "fetch"
       /\ handed[j].requestBody = Slice0(LongText, BodyLimit)
       /\ handed[j].responseBody = Slice0(LongText, BodyLimit)

\* ------------------------------------------------------------------------
\* SpecNormalize: errors, plain objects, chains of wrappers and objects that
\* lead back to themselves go through the normalizer by way of the three hooks
\* ------------------------------------------------------------------------
MaxNormalizeRecords == 2

NormalizeRefs == {7, 11, 12, 13, 18, 19, 20, 21, 22, 23, 24}

NextNormalize ==
  \/ \E r \in NormalizeRefs : nextN <= MaxNormalizeRecords /\ ConsoleError(<<r>>)
  \/ \E r \in NormalizeRefs : nextN <= MaxNormalizeRecords /\ UnhandledRejection(r)
  \/ \E r \in NormalizeRefs :
       nextN <= MaxNormalizeRecords /\ WindowError(ErrorEvent(r, "Uncaught", "", 0))

SpecNormalize == Init /\ [][NextNormalize]_vars

\* a wrapper: a plain object without componentStack and without message that has a
\* truthy error or reason, which the normalizer follows
IsWrapper(r) ==
  /\ r # 0
  /\ ~Heap[r].isNull
  /\ Heap[r].typeOf = "object"
  /\ ~Heap[r].instanceofError
  /\ ~Heap[r].instanceofErrorEvent
  /\ ~Heap[r].instanceofDOMException
  /\ Heap[r].componentStack = ""
  /\ ~Heap[r].hasMessage
  /\ (Truthy(Heap[r].error) \/ Truthy(Heap[r].reason))

Wrapped(r) == IF Truthy(Heap[r].error) THEN Heap[r].error ELSE Heap[r].reason

\* the wrappers in a row from r on, counted up to k
RECURSIVE WrapperCount(_, _)
WrapperCount(r, k) ==
  IF k = 0 \/ ~IsWrapper(r) THEN 0 ELSE 1 + WrapperCount(Wrapped(r), k - 1)

\* the values at the head of a chain of more than three wrappers
DeepRefs == {r \in Refs : WrapperCount(r, 4) > 3}

\* the last message posted is the console record of the sentinel
SentinelPosted ==
  /\ sent # <<>>
  /\ sent[Len(sent)].type = "console_error"
  /\ sent[Len(sent)].data.errorType = "unknown"
  /\ sent[Len(sent)].data.message = "[Max depth reached]"

\* C25: extractErrorInfo returns for every value, also for objects whose error or
\* reason leads back to themselves, without ever running deeper than depth 4; and
\* for a chain of more than three wrappers it returns the sentinel record of
\* type "unknown" with message "[Max depth reached]", which console.error records.
C25_NormalizerTerminates ==
  /\ [](\A r \in Refs \cup {0} : extractErrorInfo(r, 0).deepest <= 4)
  /\ [][\A r \in DeepRefs :
          ConsoleError(<<r>>) =>
            /\ extractErrorInfo(r, 0).type = "unknown"
            /\ extractErrorInfo(r, 0).message = "[Max depth reached]"
            /\ SentinelPosted']_vars

\* console.error has recorded an object that is its own error, and the normalizer
\* ran down to depth 4 for it
C25_Witness ==
  /\ SentinelPosted
  /\ lastCall = "returned"
  /\ 21 \in DeepRefs
  /\ extractErrorInfo(21, 0).deepest = 4
  /\ 19 \notin DeepRefs

\* ------------------------------------------------------------------------
\* SpecDispatch: promises are rejected with plain objects of every shape, and
\* console.error is called with them
\* ------------------------------------------------------------------------
MaxDispatchRecords == 2

\* the plain objects of the page: not null, not an Error, an ErrorEvent or a
\* DOMException
PlainObjects ==
  {r \in Refs : /\ Heap[r].typeOf = "object"
                /\ ~Heap[r].isNull
                /\ ~Heap[r].instanceofError
                /\ ~Heap[r].instanceofErrorEvent
                /\ ~Heap[r].instanceofDOMException}

\* those whose conversions to a string do not throw
DispatchRefs == {r \in PlainObjects : ~Heap[r].strThrows}

NextDispatch ==
  \/ \E r \in DispatchRefs : nextN <= MaxDispatchRecords /\ UnhandledRejection(r)
  \/ \E r \in DispatchRefs : nextN <= MaxDispatchRecords /\ ConsoleError(<<r>>)

SpecDispatch == Init /\ [][NextDispatch]_vars

HasComponentStack(r) == Heap[r].componentStack # ""
HasOwnMessage(r) == Heap[r].hasMessage

\* the last error record posted has this type, message and stack
LastPostedIs(errorType, message, stack) ==
  /\ ErrorRecordsPosted # <<>>
  /\ ErrorRecordsPosted[Len(ErrorRecordsPosted)].data.errorType = errorType
  /\ ErrorRecordsPosted[Len(ErrorRecordsPosted)].data.message = message
  /\ ErrorRecordsPosted[Len(ErrorRecordsPosted)].data.stack = stack

\* C32: for a plain object extractErrorInfo looks at componentStack first, at
\* message second, and only for an object with neither at error and then at
\* reason, before the fallback: with a componentStack the type is "ReactError"
\* also when there is a message; with a message the type, message and stack are
\* the object's own and neither error nor reason is followed; with neither, the
\* result is that of the value of error, or of reason when error is falsy; and the
\* rejection listener records what the normalizer returned.
C32_DispatchPriority ==
  /\ [](\A r \in PlainObjects :
         /\ HasComponentStack(r) =>
              /\ extractErrorInfo(r, 0).type = "ReactError"
              /\ extractErrorInfo(r, 0).componentStack = Heap[r].componentStack
              /\ extractErrorInfo(r, 0).deepest = 0
         /\ (~HasComponentStack(r) /\ HasOwnMessage(r)) =>
              /\ extractErrorInfo(r, 0).type
                   = Or(Heap[r].name, Or(Heap[r].type, "ObjectError"))
              /\ extractErrorInfo(r, 0).message = Heap[r].message
              /\ extractErrorInfo(r, 0).stack = Heap[r].stack
              /\ extractErrorInfo(r, 0).deepest = 0
         /\ (~HasComponentStack(r) /\ ~HasOwnMessage(r) /\ Truthy(Heap[r].error)) =>
              extractErrorInfo(r, 0) = extractErrorInfo(Heap[r].error, 1)
         /\ (/\ ~HasComponentStack(r) /\ ~HasOwnMessage(r)
             /\ ~Truthy(Heap[r].error) /\ Truthy(Heap[r].reason)) =>
              extractErrorInfo(r, 0) = extractErrorInfo(Heap[r].reason, 1)
         /\ (/\ ~HasComponentStack(r) /\ ~HasOwnMessage(r)
             /\ ~Truthy(Heap[r].error) /\ ~Truthy(Heap[r].reason)) =>
              /\ extractErrorInfo(r, 0).type \in {"Object", Or(Heap[r].ctor, "Object")}
              /\ extractErrorInfo(r, 0).deepest = 0)
  /\ [][/\ UnhandledRejection(25) => LastPostedIs("ApiError", "Request failed", "")'
        /\ UnhandledRejection(28) => LastPostedIs("ReactError", "Render failed", StackA)'
        /\ UnhandledRejection(26)
             => LastPostedIs("TypeError", "x.map is not a function", StackA)'
        /\ UnhandledRejection(27)
             => LastPostedIs("ReferenceError", "foo is not defined", StackA)']_vars

\* the rejection with an object that has a message, an error and a reason was
\* recorded under the object's own name and message, and then the rejection with
\* the object that has only an error and a reason under those of the error
C32_Witness ==
  /\ Len(sent) >= 2
  /\ sent[1].type = "promise_rejection"
  /\ sent[1].data.errorType = "ApiError"
  /\ sent[1].data.message = "Request failed"
  /\ sent[2].type = "promise_rejection"
  /\ sent[2].data.errorType = "TypeError"
  /\ 25 \in PlainObjects
  /\ HasOwnMessage(25)
  /\ Truthy(Heap[25].error)

\* ------------------------------------------------------------------------
\* SpecInstall: the main-world script is run, and run again, on a page that
\* logs errors, throws, and makes network calls
\* ------------------------------------------------------------------------
MaxInstalls == 2
MaxInstallRecords == 3

InstallCalls ==
  {[hook |-> "console.error", args |-> <<4>>],
   [hook |-> "console.warn", args |-> <<4>>],
   [hook |-> "error",
    e |-> ErrorEvent(7, "Uncaught TypeError: x.map is not a function", "app.js", 3)],
   [hook |-> "xhr", url |-> "/api/x", status |-> 500],
   [hook |-> "fetch", url |-> "/api/f", status |-> 500]}

NextInstall ==
  \/ installs < MaxInstalls /\ RunMainWorldScript
  \/ \E call \in InstallCalls : nextN <= MaxInstallRecords /\ PageCall(call)

SpecInstall == InitPage /\ [][NextInstall]_vars

\* a run of the script on a page where it has run before leaves everything as it is
SecondRunChangesNothing ==
  (injected /\ RunMainWorldScript) => UNCHANGED vars

\* a call or an event on the page with the script in place yields one record
OneRecordEach ==
  \A call \in InstallCalls : (injected /\ PageCall(call)) => nextN' = nextN + 1

\* C26: the hooks are installed once per page: a further run of the main-world
\* script changes nothing (no second layer around console, XMLHttpRequest or
\* fetch, no second listener), and every console call, error and network call
\* yields one record.
C26_InstalledOnce ==
  [](installs <= 1) /\ [][SecondRunChangesNothing /\ OneRecordEach]_vars

\* the script is in place, once, and calls have been recorded
C26_Witness ==
  /\ injected
  /\ installs = 1
  /\ domTimers = FixedTimers(0)
  /\ nextN > MaxInstallRecords

\* ------------------------------------------------------------------------
\* SpecMonitor: the crash monitor on a page whose DOM changes now and then.  The
\* page stays open: the clock runs on while a timer is pending, and a timer that
\* is due runs.
\* ------------------------------------------------------------------------
MaxMutations == 3

\* the timers the observer has set so far: those that ran, those cleared and
\* those pending
DebouncePending == SelectSeq(domTimers, LAMBDA t : t.kind = "debounce")
MutationsSoFar ==
  Len(SelectSeq(checkLog, LAMBDA c : c.kind \in {"debounce", "cleared"}))
    + Len(DebouncePending)

\* the runs of checkForDOMCrash
ChecksRun == SelectSeq(checkLog, LAMBDA c : c.kind \in {"fixed", "debounce"})

DomTimerFires == \E dom \in {DomClean, DomErrorPage} : DomTimerFire(dom)

NextMonitor ==
  \/ MutationsSoFar < MaxMutations /\ Mutation
  \/ DomTimerFires
  \/ MonitorTick

SpecMonitor ==
  Init /\ [][NextMonitor]_vars /\ WF_vars(MonitorTick) /\ WF_vars(DomTimerFires)

\* the checks of setupCrashMonitor ran 500 ms, 2 s and 5 s after the setup (at
\* time 0), once each
FixedChecksOnTime ==
  /\ \A i \in 1..Len(checkLog) :
       checkLog[i].kind = "fixed" => checkLog[i].at \in {500, 2000, 5000}
  /\ \A i, j \in 1..Len(checkLog) :
       (checkLog[i] = checkLog[j] /\ checkLog[i].kind = "fixed") => i = j
  /\ \A d \in {500, 2000, 5000} :
       now > d => \E i \in 1..Len(checkLog) : checkLog[i] = [at |-> d, kind |-> "fixed"]

\* a mutation leaves one debounce timer pending, due 100 ms later, whatever was
\* pending before
MutationRearms ==
  Mutation => DebouncePending' = <<[due |-> now + 100, kind |-> "debounce"]>>

\* a debounce check runs when its timer is due, and no mutation came in between
DebounceCheckOnTime ==
  (Len(ChecksRun') > Len(ChecksRun) /\ ChecksRun'[Len(ChecksRun')].kind = "debounce") =>
    /\ ChecksRun'[Len(ChecksRun')].at = crashTimeout
    /\ DebouncePending' = <<>>

\* the check of the timer set last has run
DebounceRan ==
  /\ DebouncePending = <<>>
  /\ \E i \in 1..Len(checkLog) :
       checkLog[i] = [at |-> crashTimeout, kind |-> "debounce"]

\* C30: the DOM checks run 500 ms, 2 s and 5 s after the setup and once 100 ms
\* after the last mutation of a burst: at most one debounce timer is pending at
\* any time, each mutation cancels the pending one and sets a new one, and once a
\* debounce timer is pending a debounce check runs in the end.
C30_ChecksScheduled ==
  /\ [](FixedChecksOnTime /\ Len(DebouncePending) <= 1)
  /\ [][MutationRearms /\ DebounceCheckOnTime]_vars
  /\ ((Len(DebouncePending) > 0) ~> DebounceRan)

\* a burst of two mutations 50 ms apart was followed by one check, 100 ms after
\* the second, and the three fixed checks have run
C30_Witness ==
  /\ Len(checkLog) = 5
  /\ checkLog[1] = [at |-> 500, kind |-> "fixed"]
  /\ checkLog[2] = [at |-> 550, kind |-> "cleared"]
  /\ checkLog[3] = [at |-> 650, kind |-> "debounce"]
  /\ checkLog[4] = [at |-> 2000, kind |-> "fixed"]
  /\ checkLog[5] = [at |-> 5000, kind |-> "fixed"]
  /\ domTimers = <<>>

\* ------------------------------------------------------------------------
\* Spec: the whole engine, every hook, call, timer and check interleaved
\* ------------------------------------------------------------------------
MaxRecords == 1
MaxCalls == 1
MaxChecks == 1

Next ==
  \/ \E args \in {<<4>>, <<6>>} : nextN <= MaxRecords /\ ConsoleError(args)
  \/ nextN <= MaxRecords /\ ConsoleWarn(<<4>>)
  \/ nextN <= MaxRecords /\ ConsoleAssert(FALSE, <<4>>)
  \/ nextN <= MaxRecords
       /\ WindowError(ErrorEvent(7, "Uncaught TypeError: x.map is not a function", "app.js", 3))
  \/ nextN <= MaxRecords /\ UnhandledRejection(7)
  \/ \E dom \in {DomErrorPage, DomBoundary} :
       DomChecksSent < MaxChecks /\ CheckForDOMCrash(dom)
  \/ Len(xhrs) < MaxXhrs /\ XhrNew
  \/ \E x \in 1..Len(xhrs) : CallsStarted < MaxCalls /\ XhrOpen(x)
  \/ \E x \in 1..Len(xhrs) : XhrSend(x, BodyNone)
  \/ \E x \in 1..Len(xhrs) : \E outcome \in XhrOutcomes :
       \E status \in (IF outcome = "load" THEN {200, 500} ELSE {0}) :
         XhrSettle(x, outcome, status, <<>>, "")
  \/ CallsStarted < MaxCalls /\ FetchCall(BodyNone)
  \/ \E c \in 1..Len(fetches) : \E status \in {200, 500} : FetchResolve(c, status, <<>>, "")
  \/ \E c \in 1..Len(fetches) : FetchBodyRead(c)
  \/ \E c \in 1..Len(fetches) : FetchReject(c)
  \/ now < HorizonMs /\ Tick
  \/ CooldownFire

Spec == Init /\ [][Next]_vars

\* ------------------------------------------------------------------------
\* The background service worker
\* ------------------------------------------------------------------------
\* saveToStorage: the last records of each collection go to the storage area
saveToStorage(w) ==
  [w EXCEPT !.storage.errorDb =
     << [crashes |-> Last(w.db.crashes, 50),
         apiErrors |-> Last(w.db.apiErrors, 200),
         apiRequests |-> Last(w.db.apiRequests, 200),
         consoleErrors |-> Last(w.db.consoleErrors, 200),
         pageErrors |-> Last(w.db.pageErrors, 100),
         screenshots |-> Last(w.db.screenshots, 30),
         sessions |-> w.db.sessions] >>]

\* getOrCreateSession: the table with a session of this id in it
getOrCreateSession(sessions, sessionId, pageUrl, t) ==
  IF \E s \in sessions : s.id = sessionId THEN sessions
  ELSE sessions \cup {[id |-> sessionId, startTime |-> t, pageUrl |-> pageUrl,
                       errorCount |-> 0, apiErrorCount |-> 0, crashCount |-> 0]}

\* updateSessionStats: the counter of the session that goes with the type
updateSessionStats(sessions, sessionId, type) ==
  {IF s.id # sessionId THEN s
   ELSE IF type \in {"page_error", "console_error", "promise_rejection"}
     THEN [s EXCEPT !.errorCount = @ + 1]
   ELSE IF type = "api_error" THEN [s EXCEPT !.apiErrorCount = @ + 1]
   ELSE IF type = "crash_detected" THEN [s EXCEPT !.crashCount = @ + 1]
   ELSE s : s \in sessions}

\* captureScreenshot up to its await: throttled to one capture a second
captureScreenshot(w, reason, t) ==
  IF t - w.lastScreenshotTime < 1000 THEN w
  ELSE [w EXCEPT !.lastScreenshotTime = t, !.captures = Append(@, reason)]

\* the continuation of captureScreenshot once the tab was captured
screenshotCaptured(w, t) ==
  [w EXCEPT !.captures = Tail(@),
            !.nextId = @ + 1,
            !.db.screenshots =
               PushCapped(@, [id |-> w.nextId, tabId |-> 1, reason |-> Head(w.captures),
                              timestamp |-> t], 30)]

\* handleError from its switch on: the push by type, the trim, the save.  A crash
\* bundle arrives with its four recent lists filled, and enrichCrashData leaves
\* such a bundle as it is.
handleErrorStore(w, type, entry, t) ==
  saveToStorage(
    [(IF type \in {"crash_detected", "page_error", "promise_rejection"}
        THEN captureScreenshot(w, IF type = "crash_detected" THEN "crash" ELSE type, t)
        ELSE w)
     EXCEPT
       !.nextId = @ + 1,
       !.db.crashes =
          IF type = "crash_detected" THEN PushCapped(@, entry, 50) ELSE @,
       !.db.apiErrors =
          IF type \in {"api_error", "resource_error"} THEN PushCapped(@, entry, 200) ELSE @,
       !.db.apiRequests =
          IF \/ type = "api_request"
             \/ type = "api_error" /\ entry.type # "resource_error"
            THEN PushCapped(@, entry, 200) ELSE @,
       !.db.consoleErrors =
          IF type \in {"console_error", "console_warn"} THEN PushCapped(@, entry, 200) ELSE @,
       !.db.pageErrors =
          IF type \in {"page_error", "promise_rejection"} THEN PushCapped(@, entry, 100) ELSE @])

\* the entry of handleError: the fields of data go over id, tabId, tabUrl and
\* errorType, and receivedAt over those of data; n is the arrival number
handleErrorEntry(w, type, data, t) ==
  [receivedAt |-> t, n |-> w.received] @@ data
    @@ [id |-> w.nextId, tabId |-> 1, tabUrl |-> LocationHref, errorType |-> type]

\* a slip: the flag isTrackingEnabled is not consulted
handleError_Always(w, type, data, t) ==
  handleErrorStore(
    IF data.sessionId # ""
      THEN [w EXCEPT !.db.sessions =
              updateSessionStats(
                getOrCreateSession(@, data.sessionId, data.pageUrl, t),
                data.sessionId, type)]
      ELSE w,
    type, handleErrorEntry(w, type, data, t), t)

\* handleError(type, data, tabId, tabUrl) at time t
handleError(w, type, data, t) ==
  IF ~w.isTrackingEnabled THEN w
  ELSE handleErrorStore(
         IF data.sessionId # ""
           THEN [w EXCEPT !.db.sessions =
                   updateSessionStats(
                     getOrCreateSession(@, data.sessionId, data.pageUrl, t),
                     data.sessionId, type)]
           ELSE w,
         type, handleErrorEntry(w, type, data, t), t)

\* the variables of the page and of the content script
pageVars ==
  <<localErrors, apiBuffer, pendingAfterError, lastErrorTimestamp, recentCriticalErrors,
    crashTriggered, lastDOMCrashReason, cooldownTimers, sent, handed, nextN, lastCall,
    injected, installs, domTimers, crashTimeout, checkLog, xhrs, fetches, bridge>>

\* the oldest pending read of loadFromStorage returns and its continuation runs:
\* Object.assign(db, result.errorDb) puts the saved collections in the place of
\* those of db
LoadCompletes ==
  /\ worker.loads # <<>>
  /\ LET result == Head(worker.loads) IN
      worker' =
        [worker EXCEPT
           !.loads = Tail(@),
           !.db = IF result.errorDb # <<>> THEN result.errorDb[1] ELSE @,
           !.isTrackingEnabled =
              result.userConsent = "true" /\ result.trackingEnabled # "false"]
  /\ UNCHANGED <<pageVars, now>>

\* a logError message arrives
LogError(type, data) ==
  /\ worker' = handleError([worker EXCEPT !.received = @ + 1], type, data, now)
  /\ UNCHANGED <<pageVars, now>>

\* the message setTrackingEnabled: the flag, and its copy in the storage area
SetTrackingEnabled(enabled) ==
  /\ worker' = [worker EXCEPT !.isTrackingEnabled = enabled,
                              !.storage.trackingEnabled =
                                 IF enabled THEN "true" ELSE "false"]
  /\ UNCHANGED <<pageVars, now>>

\* the message clearAllErrors
ClearAllErrors ==
  /\ worker' = saveToStorage([worker EXCEPT !.db = EmptyDb])
  /\ UNCHANGED <<pageVars, now>>

\* the listener of chrome.runtime.onInstalled; of onInstalled and onStartup at
\* most one fires in the life of a worker here
OnInstalled(reason) ==
  /\ worker.fired = {}
  /\ worker' =
       loadFromStorage(
         IF reason = "install"
           THEN [worker EXCEPT !.fired = {"onInstalled"},
                               !.storage.userConsent = "false",
                               !.storage.trackingEnabled = "false"]
           ELSE [worker EXCEPT !.fired = {"onInstalled"}])
  /\ UNCHANGED <<pageVars, now>>

\* the listener of chrome.runtime.onStartup
OnStartup ==
  /\ worker.fired = {}
  /\ worker' = loadFromStorage([worker EXCEPT !.fired = {"onStartup"}])
  /\ UNCHANGED <<pageVars, now>>

\* the interval of 10 s calls saveToStorage
AutoSave ==
  /\ worker' = saveToStorage(worker)
  /\ UNCHANGED <<pageVars, now>>

\* the oldest pending capture ends: with a picture, or with an exception that
\* the catch turns into null
ScreenshotCaptured ==
  /\ worker.captures # <<>>
  /\ worker' \in {screenshotCaptured(worker, now), [worker EXCEPT !.captures = Tail(@)]}
  /\ UNCHANGED <<pageVars, now>>

\* ------------------------------------------------------------------------
\* SpecWorker: messages, reads of the storage area and captures at the worker
\* ------------------------------------------------------------------------
MaxWorkerMessages == 2

\* the storage areas a worker may start over: that of a new profile, where
\* nothing was ever set, and that of a user who consented
StoredStates ==
  {[errorDb |-> <<>>, userConsent |-> "unset", trackingEnabled |-> "unset"],
   ConsentedStorage}

\* what the content script sends with logError
WorkerMessages ==
  {<<"crash_detected", [sessionId |-> SESSION_ID, pageUrl |-> LocationHref, type |-> "crash"]>>,
   <<"api_error", [sessionId |-> SESSION_ID, pageUrl |-> LocationHref, type |-> "api"]>>,
   <<"api_error", [sessionId |-> "", pageUrl |-> LocationHref, type |-> "resource_error"]>>,
   <<"console_error", [sessionId |-> "", pageUrl |-> LocationHref, type |-> "console"]>>}

InitWorker ==
  /\ Declared
  /\ injected = TRUE
  /\ installs = 1
  /\ domTimers = FixedTimers(0)
  /\ crashTimeout = NoTimer
  /\ checkLog = <<>>
  /\ \E storage \in StoredStates : worker = WorkerStart(storage)

NextWorker ==
  \/ LoadCompletes
  \/ \E msg \in WorkerMessages :
       worker.received < MaxWorkerMessages /\ LogError(msg[1], msg[2])
  \/ \E enabled \in BOOLEAN : SetTrackingEnabled(enabled)
  \/ ClearAllErrors
  \/ \E reason \in {"install", "update"} :
       OnInstalled(reason)
  \/ OnStartup
  \/ AutoSave
  \/ ScreenshotCaptured

SpecWorker == InitWorker /\ [][NextWorker]_vars

\* the collections of db that handleError fills
RecordCollections == {"crashes", "apiErrors", "apiRequests", "consoleErrors", "pageErrors"}

\* the arrival numbers of the records in the collections of db
StoredNumbers(db) ==
  UNION {{db[c][i].n : i \in 1..Len(db[c])} : c \in RecordCollections}

\* this step handles a logError message
LogErrorArrives == worker'.received = worker.received + 1

\* C33: while tracking is disabled a logError message of any type leaves every
\* collection of db and the session table (and all else the worker holds)
\* unchanged; while tracking is enabled the record of the message is stored.
C33_DisabledStoresNothing ==
  [][LogErrorArrives =>
       /\ ~worker.isTrackingEnabled => worker' = [worker EXCEPT !.received = @ + 1]
       /\ worker.isTrackingEnabled =>
            /\ worker'.received \in StoredNumbers(worker'.db)
            /\ worker'.db # worker.db]_vars

\* the first message was stored while tracking was enabled, the second came
\* while it was disabled and left no record
C33_Witness ==
  /\ worker.received = 2
  /\ ~worker.isTrackingEnabled
  /\ StoredNumbers(worker.db) = {1}
  /\ worker.db.sessions # {}

\* the length at which a collection of db loses its oldest record
CapOf(c) == IF c = "crashes" THEN 50 ELSE IF c = "pageErrors" THEN 100 ELSE 200

\* every record of db is still in its collection after the step, unless it was
\* the oldest of a full collection
RecordsKeptOrEvicted ==
  \A c \in RecordCollections :
    \A i \in 1..Len(worker.db[c]) :
      \/ IsIn(worker.db[c][i], worker'.db[c])
      \/ i = 1 /\ Len(worker.db[c]) >= CapOf(c)

\* C39: a record accepted by handleError leaves db only by cap eviction or by
\* clearAllErrors; a loadFromStorage that completes after the record was stored
\* does not drop it.
C39_OnlyEvictionOrClear == [][ClearAllErrors \/ RecordsKeptOrEvicted]_vars

====
